---- MODULE Spec2Model ----
(***************************************************************************)
(* Catalog / snapshot subsystem of the log server: the persisted stream    *)
(* metadata (stream.json, embedding the Snapshot), the manifest objects,   *)
(* the time-range pruner of fetch_parquet_file_paths, ingest commits and   *)
(* retention cleanup.                                                      *)
(*                                                                         *)
(* Time is an integer count of ticks; a minute is TicksPerMinute ticks, so *)
(* that an instant can fall inside the minute a storage path names.        *)
(***************************************************************************)
EXTENDS Integers, Sequences, FiniteSets, TLC

VARIABLES
    stream_jsons,    \* node -> bytes of that node's stream.json
    manifest_store,  \* manifest path -> the manifest object (its files), when it exists
    metas,           \* node -> the ObjectStoreFormat the node last persisted
    stream_info,     \* the in-memory stream registry (STREAM_INFO): set of stream names
    rd,              \* the reader: one call of fetch_parquet_file_paths
    ing,             \* ingest task -> its commit (add_manifest) in progress
    ret,             \* the retention cleanup request in progress
    alerts,          \* ALERTS.alerts: alert id -> the AlertConfig in memory, when present
    alert_store,     \* the metastore: alert id -> the AlertConfig persisted, when present
    scheduled_tasks, \* ALERTS.scheduled_tasks: alert id -> the task handle registered for it
    alert_tasks,     \* the evaluation tasks spawned so far, each with its inbox channel
    notifs,          \* the notifications handed to the targets
    post,            \* the alert creation request in progress
    rbac_map,        \* rbac::map: the in-memory users, roles and default role, and UPDATE_LOCK
    metadata,        \* the persisted StorageMetadata (parseable.json)
    rbac_req,        \* handler -> the user or role request it is serving
    rbac_served,     \* the number of user and role requests accepted so far
    server_mode,     \* CONFIG.parseable.mode of this server
    stats_req,       \* the get_stats request in progress
    routing,         \* QUERY_ROUTING: available_nodes, stats and info of the query nodes
    querier_store,   \* the querier metadata objects in storage
    routed,          \* what the last call of get_query_node did
    signal_received, \* SIGNAL_RECEIVED: the shutdown flag and who holds its mutex
    shutdown_pc,     \* the position of shutdown()
    mw_req,          \* request -> its passage through check_shutdown_middleware
    s3_objects,      \* the objects of the bucket under the prefix of the stream
    del_req,         \* the stream delete request in progress
    correlations,    \* CORRELATIONS: the list of CorrelationConfig in memory
    corr_req,        \* caller -> its call of Correlation::update or delete
    stream_flags,    \* cache_enabled and hot_tier_enabled of the persisted stream.json
    info_flags,      \* STREAM_INFO: cache_enabled and hot_tier of the stream in memory
    flag_config,     \* CONFIG: whether local_cache_path and hot_tier_storage_path are set
    flag_req,        \* the put_enable_cache or put_stream_hot_tier request in progress
    app,             \* the HTTP server future of QueryServer::initialize
    local_sync,      \* the local sync task: its outbox, inbox and whether it runs
    remote_sync,     \* the current remote (object store) sync task, likewise
    initialize,      \* the position of QueryServer::initialize, its result and its restarts
    stream_meta,     \* STREAM_INFO: stream -> its partition and schema settings in memory
    stream_store,    \* stream -> the same settings in the stream.json in storage
    put_req          \* the put_stream request in progress

catalog_vars == <<stream_jsons, manifest_store, metas, stream_info, rd, ing, ret>>
alert_vars == <<alerts, alert_store, scheduled_tasks, alert_tasks, notifs, post>>
rbac_vars == <<rbac_map, metadata, rbac_req, rbac_served>>

stats_vars == <<server_mode, stats_req>>
routing_vars == <<routing, querier_store, routed>>
shutdown_vars == <<signal_received, shutdown_pc, mw_req>>
delete_vars == <<s3_objects, del_req>>
corr_vars == <<correlations, corr_req>>
flag_vars == <<stream_flags, info_flags, flag_config, flag_req>>
init_vars == <<app, local_sync, remote_sync, initialize>>
put_vars == <<stream_meta, stream_store, put_req>>
http_vars == <<stats_vars, routing_vars, shutdown_vars, delete_vars, corr_vars, flag_vars, init_vars,
              put_vars>>
base_vars == <<catalog_vars, alert_vars, rbac_vars>>
beside_stats == <<base_vars, routing_vars, shutdown_vars, delete_vars, corr_vars,
    flag_vars,
    init_vars,
    put_vars>>
beside_routing == <<base_vars, stats_vars, shutdown_vars, delete_vars, corr_vars,
    flag_vars,
    init_vars,
    put_vars>>
beside_shutdown == <<base_vars, stats_vars, routing_vars, delete_vars, corr_vars,
    flag_vars,
    init_vars,
    put_vars>>
beside_corr == <<base_vars, stats_vars, routing_vars, shutdown_vars, delete_vars,
    flag_vars,
    init_vars,
    put_vars>>
beside_flags == <<base_vars, stats_vars, routing_vars, shutdown_vars, delete_vars, corr_vars,
    init_vars,
    put_vars>>
beside_init == <<base_vars, stats_vars, routing_vars, shutdown_vars, delete_vars, corr_vars, flag_vars,
    put_vars>>
beside_put == <<base_vars, stats_vars, routing_vars, shutdown_vars, delete_vars, corr_vars, flag_vars, init_vars>>
\* the stream delete handler reads the mode and writes the stream registry
beside_delete == <<stream_jsons, manifest_store, metas, rd, ing, ret, alert_vars, rbac_vars,
                   stats_vars, routing_vars, shutdown_vars, corr_vars,
                   flag_vars,
                   init_vars,
                   put_vars>>

vars == <<stream_jsons, manifest_store, metas, stream_info, rd, ing, ret,
          alerts, alert_store, scheduled_tasks, alert_tasks, notifs, post,
          rbac_map, metadata, rbac_req, rbac_served,
          server_mode, stats_req, routing, querier_store, routed,
          signal_received, shutdown_pc, mw_req, s3_objects, del_req,
          correlations, corr_req,
          stream_flags, info_flags, flag_config, flag_req,
          app, local_sync, remote_sync, initialize,
          stream_meta, stream_store, put_req>>

----------------------------------------------------------------------------
(* Bounds of the model *)

MaxManifests == 2
TicksPerMinute == 2
NumNodes == 2
MaxFiles == 2
MaxCleanups == 1
MaxAlerts == 1
MaxTargets == 1
MaxRepeat == 5
MaxRequests == 2
MaxQueryLen == 3
MaxQueriers == 2
MaxInFlight == 3
MaxObjects == 3
MaxCorrelations == 3

\* the instants manifest bounds, time ranges and file bounds are drawn from
TimePoints == {0, 9, 10, 19}
RangeTimes == {5, 10, 15, 20, 30}
FileTimes == {5, 10, 15}
Nodes == 1..NumNodes
Dates == 1..(MaxManifests + 1)
AlertIds == 1..MaxAlerts
\* the handles of the tasks that can be spawned
TaskIds == 1..2
\* the requests of the user and role API that are in flight at once
Handlers == 1..2
StreamName == "s"

----------------------------------------------------------------------------
(* Option values *)

None == [some |-> FALSE]
Some(x) == [some |-> TRUE, val |-> x]

RECURSIVE SeqToSet(_)
SeqToSet(s) == IF s = <<>> THEN {} ELSE {Head(s)} \cup SeqToSet(Tail(s))

RECURSIVE Reverse(_)
Reverse(s) == IF s = <<>> THEN <<>> ELSE Append(Reverse(Tail(s)), Head(s))

RECURSIVE FlatMapFiles(_)
FlatMapFiles(ms) == IF ms = <<>> THEN <<>> ELSE Head(ms).files \o FlatMapFiles(Tail(ms))

SetMin(S) == CHOOSE x \in S : \A y \in S : x <= y

----------------------------------------------------------------------------
(* Time filters *)

DEFAULT_TIMESTAMP_KEY == "p_timestamp"

\* PartialTimeFilter::binary_expr: the filter as a comparison of a column
binary_expr(filter, column) ==
    [column |-> column,
     op |-> IF filter.side = "Low"
            THEN (IF filter.bound = "Included" THEN ">=" ELSE ">")
            ELSE (IF filter.bound = "Excluded" THEN "<" ELSE "<="),
     value |-> filter.time]

create_time_filter_swapped(time_range, time_partition, table_name) ==
    LET column == IF time_partition.some THEN time_partition.val ELSE DEFAULT_TIMESTAMP_KEY
    IN  << binary_expr([side |-> "Low", bound |-> "Included", time |-> time_range.end],
                       [relation |-> table_name, name |-> column]),
           binary_expr([side |-> "High", bound |-> "Excluded", time |-> time_range.start],
                       [relation |-> table_name, name |-> column]) >>

create_time_filter(time_range, time_partition, table_name) ==
    LET start_time == time_range.start
        end_time == time_range.end
        column == IF time_partition.some THEN time_partition.val ELSE DEFAULT_TIMESTAMP_KEY
    IN  << binary_expr([side |-> "Low", bound |-> "Included", time |-> start_time],
                       [relation |-> table_name, name |-> column]),
           binary_expr([side |-> "High", bound |-> "Excluded", time |-> end_time],
                       [relation |-> table_name, name |-> column]) >>

\* extract_primary_filter: the Low/High bound descriptors of the comparisons
\* that are on the time column
is_time_column(expr, time_partition) ==
    IF time_partition.some
    THEN expr.column.name = time_partition.val
    ELSE expr.column.name = DEFAULT_TIMESTAMP_KEY

expr_to_filter(expr) ==
    [side |-> IF expr.op \in {">=", ">"} THEN "Low" ELSE "High",
     bound |-> IF expr.op \in {">=", "<="} THEN "Included" ELSE "Excluded",
     time |-> expr.value]

RECURSIVE extract_primary_filter(_, _)
extract_primary_filter(exprs, time_partition) ==
    IF exprs = <<>> THEN <<>>
    ELSE (IF is_time_column(Head(exprs), time_partition)
          THEN <<expr_to_filter(Head(exprs))>> ELSE <<>>)
         \o extract_primary_filter(Tail(exprs), time_partition)

\* Snapshot::manifests: linear scan, one retain per filter
retain_manifest(item, filter) ==
    IF filter.side = "Low"
    THEN (IF filter.bound = "Included"
          THEN item.time_upper_bound >= filter.time
          ELSE item.time_upper_bound > filter.time)
    ELSE (IF filter.bound = "Excluded"
          THEN item.time_lower_bound < filter.time
          ELSE item.time_lower_bound <= filter.time)

RECURSIVE manifests(_, _)
manifests(manifest_list, time_filters) ==
    IF time_filters = <<>> THEN manifest_list
    ELSE manifests(SelectSeq(manifest_list, LAMBDA item : retain_manifest(item, Head(time_filters))),
                   Tail(time_filters))

\* File::can_be_pruned: the file's bounds have no intersection with the bound
can_be_pruned(file, expr) ==
    CASE expr.op = ">=" -> file.upper < expr.value
      [] expr.op = ">"  -> file.upper <= expr.value
      [] expr.op = "<"  -> file.lower >= expr.value
      [] expr.op = "<=" -> file.lower > expr.value

RECURSIVE retain_files(_, _)
retain_files(files, exprs) ==
    IF exprs = <<>> THEN files
    ELSE retain_files(SelectSeq(files, LAMBDA file : ~can_be_pruned(file, Head(exprs))),
                      Tail(exprs))

----------------------------------------------------------------------------
(* Storage paths of data files: <stream>/date=D/hour=H/minute=M/<name> *)

file_path_of(minute, name) ==
    <<StreamName, minute \div 1440, (minute \div 60) % 24, minute % 60, name>>

minute_of(t) == t \div TicksPerMinute

\* the date-time parsed from segments 1..3 of the path, at second 0
file_date(file) ==
    LET date == file.file_path
    IN  ((date[2] * 24 + date[3]) * 60 + date[4]) * TicksPerMinute

group_key(file) == SubSeq(file.file_path, 2, 4)

----------------------------------------------------------------------------
(* Persisted representation: the stream.json bytes are the sequence of     *)
(* key/value fields of the JSON object; a manifest item is three fields.   *)

manifest_path_of(date) == <<StreamName, date, "manifest.json">>

item_fields(item) ==
    << [k |-> "manifest_path", v |-> item.manifest_path],
       [k |-> "time_lower_bound", v |-> item.time_lower_bound],
       [k |-> "time_upper_bound", v |-> item.time_upper_bound] >>

RECURSIVE list_fields(_)
list_fields(manifest_list) ==
    IF manifest_list = <<>> THEN <<>>
    ELSE item_fields(Head(manifest_list)) \o list_fields(Tail(manifest_list))

\* serde_json::to_vec of an ObjectStoreFormat
to_bytes(format) ==
    << [k |-> "time_partition", v |-> format.time_partition],
       [k |-> "manifest_list", v |-> Len(format.manifest_list)] >>
    \o list_fields(format.manifest_list)

well_formed(bytes) ==
    /\ Len(bytes) >= 2
    /\ bytes[1].k = "time_partition"
    /\ bytes[2].k = "manifest_list"
    /\ Len(bytes) = 2 + 3 * bytes[2].v
    /\ \A i \in 1..bytes[2].v :
          /\ bytes[3 * i].k = "manifest_path"
          /\ bytes[3 * i + 1].k = "time_lower_bound"
          /\ bytes[3 * i + 2].k = "time_upper_bound"

\* serde_json::from_slice::<ObjectStoreFormat>
from_slice(bytes) ==
    IF well_formed(bytes)
    THEN [ok |-> TRUE,
          val |-> [time_partition |-> bytes[1].v,
                   manifest_list |->
                       [i \in 1..bytes[2].v |->
                           [manifest_path |-> bytes[3 * i].v,
                            time_lower_bound |-> bytes[3 * i + 1].v,
                            time_upper_bound |-> bytes[3 * i + 2].v]]]]
    ELSE [ok |-> FALSE]

----------------------------------------------------------------------------
(* fetch_parquet_file_paths *)

ReaderNode == 1

EmptyRange == [start |-> 0, end |-> 0]

IdleReader ==
    [pc |-> "idle", time_range |-> EmptyRange, time_partition |-> None, listed |-> FALSE,
     merged |-> <<>>, selected |-> <<>>, todo |-> <<>>, manifest_files |-> <<>>,
     missing |-> None, result |-> <<>>]

\* lines 79-91: the manifest lists of all stream jsons that parse, appended
RECURSIVE merge_snapshots_first_only(_)
merge_snapshots_first_only(obs) ==
    IF obs = <<>> THEN <<>>
    ELSE IF from_slice(Head(obs)).ok
         THEN from_slice(Head(obs)).val.manifest_list
         ELSE merge_snapshots_first_only(Tail(obs))

RECURSIVE merge_snapshots(_)
merge_snapshots(obs) ==
    IF obs = <<>> THEN <<>>
    ELSE (IF from_slice(Head(obs)).ok
          THEN from_slice(Head(obs)).val.manifest_list
          ELSE <<>>)
         \o merge_snapshots(Tail(obs))

\* lines 75-77 and 95: the manifests selected for the time range
select_manifests_until_disjoint(merged_snapshot, time_range, time_partition) ==
    LET time_filters == extract_primary_filter(
                            create_time_filter(time_range, time_partition, StreamName),
                            time_partition)
        keep(i) == \A f \in 1..Len(time_filters) :
                       retain_manifest(merged_snapshot[i], time_filters[f])
        stop == {i \in 1..Len(merged_snapshot) : ~keep(i)}
        n == IF stop = {} THEN Len(merged_snapshot) ELSE SetMin(stop) - 1
    IN  SubSeq(merged_snapshot, 1, n)

select_manifests(merged_snapshot, time_range, time_partition) ==
    LET time_filter_expr == create_time_filter(time_range, time_partition, StreamName)
        time_filters == extract_primary_filter(time_filter_expr, time_partition)
    IN  manifests(merged_snapshot, time_filters)

\* lines 111-157: the files of the fetched manifests, reversed, pruned per
\* filter, without those whose path date is before the start, grouped by
\* the date/hour/minute segments of the path
\* lines 113-121: the files of the fetched manifests, reversed, then one
\* retain per filter expression
selected_files_first_filter_only(manifest_files, time_range, time_partition) ==
    LET time_filter_expr == create_time_filter(time_range, time_partition, StreamName)
    IN  retain_files(Reverse(FlatMapFiles(manifest_files)), <<Head(time_filter_expr)>>)

selected_files(manifest_files, time_range, time_partition) ==
    LET time_filter_expr == create_time_filter(time_range, time_partition, StreamName)
    IN  retain_files(Reverse(FlatMapFiles(manifest_files)), time_filter_expr)

collect_files_no_date_filter(manifest_files, time_range, time_partition) ==
    LET selected == selected_files(manifest_files, time_range, time_partition)
        keys == {group_key(selected[i]) : i \in 1..Len(selected)}
    IN  [date \in keys |-> SelectSeq(selected, LAMBDA file : group_key(file) = date)]

collect_files(manifest_files, time_range, time_partition) ==
    LET selected == selected_files(manifest_files, time_range, time_partition)
        kept == SelectSeq(selected, LAMBDA file : ~(file_date(file) < time_range.start))
        keys == {group_key(kept[i]) : i \in 1..Len(kept)}
    IN  [date \in keys |-> SelectSeq(kept, LAMBDA file : group_key(file) = date)]

\* the state of the call once the manifests in todo are the ones left to get
reader_after(r, todo, manifest_files) ==
    IF todo = <<>>
    THEN [r EXCEPT !.pc = "done", !.todo = <<>>, !.manifest_files = manifest_files,
                   !.result = collect_files(manifest_files, r.time_range, r.time_partition)]
    ELSE [r EXCEPT !.pc = "get_manifest", !.todo = todo, !.manifest_files = manifest_files]

\* lines 65-73: get_stream_json and its deserialization; either may fail,
\* and the error is returned
GetStreamJson(time_range) ==
    /\ rd.pc = "idle"
    /\ \E storage_ok \in BOOLEAN :
       LET got == from_slice(stream_jsons[ReaderNode])
       IN  rd' = IF storage_ok /\ got.ok
                 THEN [IdleReader EXCEPT !.pc = "get_all", !.time_range = time_range,
                                         !.time_partition = got.val.time_partition]
                 ELSE [IdleReader EXCEPT !.pc = "err", !.time_range = time_range]
    /\ UNCHANGED <<stream_jsons, manifest_store, metas, stream_info, ing, ret>>
    /\ UNCHANGED <<alert_vars, rbac_vars, http_vars>>

\* lines 75-95: get_all_stream_jsons (all stream jsons in one listing), the
\* merge and the selection; when the listing fails nothing is merged
GetAllStreamJsons ==
    /\ rd.pc = "get_all"
    /\ \E storage_ok \in BOOLEAN :
       LET obs == IF storage_ok THEN [n \in Nodes |-> stream_jsons[n]] ELSE <<>>
           merged_snapshot == merge_snapshots(obs)
           selected == select_manifests(merged_snapshot, rd.time_range, rd.time_partition)
       IN  rd' = reader_after([rd EXCEPT !.listed = storage_ok, !.merged = merged_snapshot,
                                         !.selected = selected],
                              selected, <<>>)
    /\ UNCHANGED <<stream_jsons, manifest_store, metas, stream_info, ing, ret>>
    /\ UNCHANGED <<alert_vars, rbac_vars, http_vars>>

\* lines 96-108: get_manifest of the next selected manifest; an Err returns
\* through `?`, an Ok(None) panics in expect
GetManifest ==
    /\ rd.pc = "get_manifest"
    /\ LET manifest_item == Head(rd.todo)
           got == manifest_store[manifest_item.manifest_path]
       IN  IF got.some
           THEN rd' = reader_after(rd, Tail(rd.todo), Append(rd.manifest_files, got.val))
           ELSE \E outcome \in {"err", "panic"} :
                    rd' = [rd EXCEPT !.pc = outcome, !.missing = Some(manifest_item)]
    /\ UNCHANGED <<stream_jsons, manifest_store, metas, stream_info, ing, ret>>
    /\ UNCHANGED <<alert_vars, rbac_vars, http_vars>>

ReaderReturn ==
    /\ rd.pc \in {"done", "err", "panic"}
    /\ rd' = IdleReader
    /\ UNCHANGED <<stream_jsons, manifest_store, metas, stream_info, ing, ret>>
    /\ UNCHANGED <<alert_vars, rbac_vars, http_vars>>

----------------------------------------------------------------------------
(* The registries outside the catalog, at rest *)

\* AlertState and its Default
AlertStates == {"Triggered", "Silenced", "Resolved"}
AlertState_default == "Resolved"

NoAlert == [id |-> 0, title |-> "", state |-> AlertState_default,
            eval_start |-> "", eval_frequency |-> 0, targets |-> <<>>,
            aggregates |-> [operator |-> None, aggregate_config |-> <<>>]]

\* a task that has not been spawned
NoTask ==
    [pc |-> "unspawned", alert |-> NoAlert, inbox |-> "open",
     new_state |-> AlertState_default, trigger_notif |-> None, updated |-> NoAlert,
     saved |-> FALSE, result |-> "none"]

IdlePost == [pc |-> "idle", alert |-> NoAlert, response |-> "none"]

Usernames == {"u1", "u2"}
RoleNames == {"r1"}

\* StorageMetadata: the users (a Vec), the roles and the default role
EmptyMetadata == [users |-> <<>>, roles |-> [name \in RoleNames |-> None], default_role |-> None]

IdleHandler ==
    [pc |-> "idle", op |-> "none", outer |-> "none", username |-> "", name |-> "",
     roles |-> {}, hash |-> "", metadata |-> EmptyMetadata, response |-> "none"]

AlertsAtRest ==
    /\ alerts = [id \in AlertIds |-> None]
    /\ alert_store = [id \in AlertIds |-> None]
    /\ scheduled_tasks = [id \in AlertIds |-> None]
    /\ alert_tasks = [t \in TaskIds |-> NoTask]
    /\ notifs = {}
    /\ post = IdlePost

RbacAtRest ==
    /\ rbac_map = [users |-> [username \in Usernames |-> None],
                   roles |-> [name \in RoleNames |-> None],
                   default_role |-> None, UPDATE_LOCK |-> None]
    /\ metadata = EmptyMetadata
    /\ rbac_req = [h \in Handlers |-> IdleHandler]
    /\ rbac_served = 0

----------------------------------------------------------------------------
(* The pruner on its own: every stored snapshot and every time range *)

AllManifestPaths == {manifest_path_of(date) : date \in Dates}
TimeRanges == {r \in [start : RangeTimes, end : RangeTimes] : r.start < r.end}
Intervals == {iv \in [lower : TimePoints, upper : TimePoints] : iv.lower <= iv.upper}
TimePartitions == {None, Some("ts")}
FileShapes ==
    {sh \in [lower : FileTimes, upper : FileTimes, minute : {minute_of(t) : t \in FileTimes}] :
        sh.lower <= sh.upper}

IdleTask == [pc |-> "idle"]

IdleRetention(runs) ==
    [pc |-> "idle", runs |-> runs, date_list |-> <<>>,
     meta |-> [time_partition |-> None, manifest_list |-> <<>>],
     res |-> [ok |-> FALSE, val |-> None],
     response |-> [status |-> "none", first_event_at |-> None]]
Tasks == 1..2

file_of(shape, name) ==
    [file_path |-> file_path_of(shape.minute, name), lower |-> shape.lower, upper |-> shape.upper]

\* a manifest written for events between lower and upper: one file over the
\* whole range and, when the range is not a point, one file at each end
files_for(date, iv) ==
    IF iv.lower = iv.upper
    THEN << file_of([lower |-> iv.lower, upper |-> iv.upper, minute |-> minute_of(iv.lower)], <<date, 1>>) >>
    ELSE << file_of([lower |-> iv.lower, upper |-> iv.upper, minute |-> minute_of(iv.lower)], <<date, 1>>),
            file_of([lower |-> iv.lower, upper |-> iv.lower, minute |-> minute_of(iv.lower)], <<date, 2>>),
            file_of([lower |-> iv.upper, upper |-> iv.upper, minute |-> minute_of(iv.upper)], <<date, 3>>) >>

item_of(date, lower, upper) ==
    [manifest_path |-> manifest_path_of(date), time_lower_bound |-> lower, time_upper_bound |-> upper]

date_of(item) == item.manifest_path[2]

\* a get_stats handler with no request
IdleStats ==
    [pc |-> "idle", stream_name |-> "", query_string |-> <<>>, dated |-> FALSE,
     touched |-> {}, response |-> "none"]

StatsAtRest ==
    /\ server_mode = "All"
    /\ stats_req = IdleStats

\* QueryRouting::default() and no call of get_query_node yet
EmptyRouting == [available_nodes |-> {}, stats |-> {}, info |-> {}]
NotRouted ==
    [called |-> FALSE, flip |-> FALSE, outcome |-> None, panicked |-> FALSE,
     read_failed |-> FALSE, rebuilt |-> None, lent |-> {}]

RoutingAtRest ==
    /\ routing = EmptyRouting
    /\ querier_store = {}
    /\ routed = NotRouted

\* the requests that can be in flight at once
RequestIds == 1..MaxInFlight

IdleRequest == [pc |-> "idle", outcome |-> "none"]

\* SIGNAL_RECEIVED = Mutex::new(false), shutdown() not called
ShutdownAtRest ==
    /\ signal_received = [value |-> FALSE, holder |-> "none"]
    /\ shutdown_pc = "idle"
    /\ mw_req = [r \in RequestIds |-> IdleRequest]

\* the keys of the objects under the prefix of the stream
ObjectKeys == 1..MaxObjects

IdleDelete ==
    [pc |-> "idle", stream_name |-> "", listed |-> {}, failed |-> FALSE,
     prefix_result |-> "none", response |-> "none"]

DeleteAtRest ==
    /\ s3_objects = {}
    /\ del_req = IdleDelete

\* the ids of the correlations, and the callers that work on the list at once
CorrelationIds == 1..MaxCorrelations
Callers == 1..2

IdleCaller ==
    [pc |-> "idle", op |-> "none", id |-> 0, index |-> 0, removed |-> None,
     panicked |-> FALSE, same_id |-> FALSE]

CorrelationsAtRest ==
    /\ correlations = <<>>
    /\ corr_req = [c \in Callers |-> IdleCaller]

NoFlags == [cache_enabled |-> FALSE, hot_tier_enabled |-> None]

IdleFlagRequest ==
    [pc |-> "idle", op |-> "none", stream_name |-> "", enable |-> FALSE,
     meta |-> [time_partition |-> None, manifest_list |-> <<>>], flags |-> NoFlags,
     response |-> "none"]

FlagsAtRest ==
    /\ stream_flags = NoFlags
    /\ info_flags = [cache_enabled |-> FALSE, hot_tier |-> FALSE]
    /\ flag_config = [local_cache_path |-> FALSE, hot_tier_storage_path |-> FALSE]
    /\ flag_req = IdleFlagRequest

\* a sync task as run_local_sync / object_store_sync hand it out
FreshSync == [task |-> "running", outbox |-> "empty", inbox |-> "empty"]

InitializeAtRest ==
    /\ app = "running"
    /\ local_sync = FreshSync
    /\ remote_sync = FreshSync
    /\ initialize = [pc |-> "select", result |-> "none", started |-> 1]

\* the settings of a stream that put_stream creates or updates
settings_of(time_partition, time_partition_limit, custom_partition, static_schema_flag) ==
    [time_partition |-> time_partition, time_partition_limit |-> time_partition_limit,
     custom_partition |-> custom_partition, static_schema_flag |-> static_schema_flag]

NoRequest ==
    [stream_name |-> "", time_partition |-> "", time_partition_limit |-> "",
     custom_partition |-> <<>>, static_schema_flag |-> "", update_stream |-> "",
     body |-> "empty"]

IdlePut == [pc |-> "idle", op |-> "none", request |-> NoRequest, response |-> "none"]

\* STREAM_INFO with the one registered stream
StreamsAtStart(settings) ==
    [name \in {StreamName, "unknown"} |-> IF name = StreamName THEN Some(settings) ELSE None]

PutStreamAtRest ==
    /\ stream_meta = StreamsAtStart(settings_of("", "", <<>>, ""))
    /\ stream_store = stream_meta
    /\ put_req = IdlePut

HttpAtRest ==
    StatsAtRest /\ RoutingAtRest /\ ShutdownAtRest /\ DeleteAtRest /\ CorrelationsAtRest
    /\ FlagsAtRest
    /\ InitializeAtRest
    /\ PutStreamAtRest

InitRest ==
    /\ stream_info = {StreamName}
    /\ rd = IdleReader
    /\ ing = [t \in Tasks |-> IdleTask]
    /\ ret = IdleRetention(0)
    /\ AlertsAtRest
    /\ RbacAtRest
    /\ HttpAtRest

\* up to MaxManifests manifests with any bounds, in any order, the first
\* ones in the stream.json of the first node and so on
InitManifests ==
    \E n \in 0..MaxManifests : \E bounds \in [1..n -> Intervals] :
    \E place \in {pl \in [1..n -> Nodes] : \A i, j \in 1..n : i <= j => pl[i] <= pl[j]} :
        LET tp == None
            items == [i \in 1..n |-> item_of(i, bounds[i].lower, bounds[i].upper)]
        IN  /\ metas = [node \in Nodes |->
                          [time_partition |-> tp,
                           manifest_list |-> SelectSeq(items, LAMBDA item : place[date_of(item)] = node)]]
            /\ stream_jsons = [node \in Nodes |->
                          to_bytes([time_partition |-> tp,
                                    manifest_list |-> SelectSeq(items, LAMBDA item : place[date_of(item)] = node)])]
            /\ manifest_store = [path \in AllManifestPaths |->
                          IF path[2] \in 1..n
                          THEN Some([files |-> files_for(path[2], bounds[path[2]])])
                          ELSE None]

\* one manifest of up to MaxFiles files with any bounds and any path minute
InitFiles ==
    \E n \in 1..MaxFiles : \E shapes \in [1..n -> FileShapes] :
    \E tp \in IF n = 1 THEN TimePartitions ELSE {None} :
        LET files == [i \in 1..n |-> file_of(shapes[i], <<1, i>>)]
            item == item_of(1, SetMin({shapes[i].lower : i \in 1..n}),
                               -SetMin({-shapes[i].upper : i \in 1..n}))
            format(node) == [time_partition |-> tp,
                             manifest_list |-> IF node = ReaderNode THEN <<item>> ELSE <<>>]
        IN  /\ metas = [node \in Nodes |-> format(node)]
            /\ stream_jsons = [node \in Nodes |-> to_bytes(format(node))]
            /\ manifest_store = [path \in AllManifestPaths |->
                          IF path[2] = 1 THEN Some([files |-> files]) ELSE None]

InitPrune == (InitManifests \/ InitFiles) /\ InitRest

NextPrune ==
    \/ \E time_range \in TimeRanges : GetStreamJson(time_range)
    \/ GetAllStreamJsons
    \/ GetManifest

SpecPrune == InitPrune /\ [][NextPrune]_vars

----------------------------------------------------------------------------
(* Object store primitives *)

\* S3::put_object: an unconditional overwrite of the object at the path
put_object(store, path, resource) == [store EXCEPT ![path] = resource]

\* S3::delete_object / delete_prefix of a date: the object is gone afterwards
delete_object(store, path) == [store EXCEPT ![path] = None]

----------------------------------------------------------------------------
(* Ingest commit: the manifest object is written first, then the snapshot  *)
(* in the node's stream.json is read, extended and written back.           *)

IngestNode == 1
PreexistingDate == 3

\* the manifest reference task t commits
ingest_item(t) ==
    IF t = 1 THEN item_of(1, 5, 9) ELSE item_of(2, 15, 19)

preexisting_item == item_of(PreexistingDate, 25, 30)

add_manifest_replacing(format, item) == [format EXCEPT !.manifest_list = <<item>>]

\* Snapshot add_manifest: the reference is pushed on the list
add_manifest(format, item) == [format EXCEPT !.manifest_list = Append(@, item)]

WriteManifest(t) ==
    /\ ing[t].pc = "idle"
    /\ LET item == ingest_item(t)
       IN  manifest_store' = put_object(manifest_store, item.manifest_path,
               Some([files |-> files_for(date_of(item),
                        [lower |-> item.time_lower_bound, upper |-> item.time_upper_bound])]))
    /\ ing' = [ing EXCEPT ![t] = [pc |-> "read"]]
    /\ UNCHANGED <<stream_jsons, metas, stream_info, rd, ret>>
    /\ UNCHANGED <<alert_vars, rbac_vars, http_vars>>

ReadSnapshot(t) ==
    /\ ing[t].pc = "read"
    /\ LET got == from_slice(stream_jsons[IngestNode])
       IN  ing' = [ing EXCEPT ![t] = IF got.ok THEN [pc |-> "write", meta |-> got.val]
                                               ELSE [pc |-> "failed"]]
    /\ UNCHANGED <<stream_jsons, manifest_store, metas, stream_info, rd, ret>>
    /\ UNCHANGED <<alert_vars, rbac_vars, http_vars>>

WriteSnapshot(t) ==
    /\ ing[t].pc = "write"
    /\ LET meta == add_manifest(ing[t].meta, ingest_item(t))
       IN  /\ stream_jsons' = put_object(stream_jsons, IngestNode, to_bytes(meta))
           /\ metas' = [metas EXCEPT ![IngestNode] = meta]
    /\ ing' = [ing EXCEPT ![t] = [pc |-> "done"]]
    /\ UNCHANGED <<manifest_store, stream_info, rd, ret>>
    /\ UNCHANGED <<alert_vars, rbac_vars, http_vars>>

\* the process stops between the manifest write and the snapshot update
Crash(t) ==
    /\ ing[t].pc \in {"read", "write"}
    /\ ing' = [ing EXCEPT ![t] = [pc |-> "crashed"]]
    /\ UNCHANGED <<stream_jsons, manifest_store, metas, stream_info, rd, ret>>
    /\ UNCHANGED <<alert_vars, rbac_vars, http_vars>>

----------------------------------------------------------------------------
(* Retention cleanup *)

\* remove_manifest: the references whose path holds one of the dates go
remove_manifest(format, date_list) ==
    [format EXCEPT !.manifest_list =
        SelectSeq(@, LAMBDA item : date_of(item) \notin SeqToSet(date_list))]

\* the minimum lower bound of the manifests that remain, if any
first_event_at_of(format) ==
    IF format.manifest_list = <<>> THEN None
    ELSE Some(SetMin({format.manifest_list[i].time_lower_bound : i \in 1..Len(format.manifest_list)}))

\* lines 140-147: what the handler answers for the result of the removal
retention_cleanup_response_inverted(res) ==
    [status |-> "OK", first_event_at |-> IF res.ok THEN None ELSE res.val]

retention_cleanup_response(res) ==
    [status |-> "OK", first_event_at |-> IF res.ok THEN res.val ELSE None]

\* lines 132-139: the request for a stream and a list of dates
RetentionCleanup(stream_name, date_list) ==
    /\ ret.pc = "idle"
    /\ ret.runs < MaxCleanups
    /\ ret' = IF stream_name \notin stream_info
              THEN [ret EXCEPT !.pc = "returned",
                               !.response = [status |-> "StreamNotFound", first_event_at |-> None]]
              ELSE [ret EXCEPT !.pc = "read", !.date_list = date_list]
    /\ UNCHANGED <<stream_jsons, manifest_store, metas, stream_info, rd, ing>>
    /\ UNCHANGED <<alert_vars, rbac_vars, http_vars>>

\* remove_manifest_from_snapshot reads the stream.json; the read may fail
RetentionRead ==
    /\ ret.pc = "read"
    /\ \E storage_ok \in BOOLEAN :
          LET got == from_slice(stream_jsons[IngestNode])
          IN  ret' = IF storage_ok /\ got.ok
                     THEN [ret EXCEPT !.pc = "write", !.meta = got.val]
                     ELSE [ret EXCEPT !.pc = "returned", !.res = [ok |-> FALSE, val |-> None],
                               !.response = retention_cleanup_response([ok |-> FALSE, val |-> None])]
    /\ UNCHANGED <<stream_jsons, manifest_store, metas, stream_info, rd, ing>>
    /\ UNCHANGED <<alert_vars, rbac_vars, http_vars>>

\* the reduced snapshot is written back and the new first event handed back
RetentionWrite ==
    /\ ret.pc = "write"
    /\ LET meta == remove_manifest(ret.meta, ret.date_list)
           res == [ok |-> TRUE, val |-> first_event_at_of(meta)]
       IN  /\ stream_jsons' = put_object(stream_jsons, IngestNode, to_bytes(meta))
           /\ metas' = [metas EXCEPT ![IngestNode] = meta]
           /\ ret' = [ret EXCEPT !.pc = "delete", !.meta = meta, !.res = res,
                                 !.response = retention_cleanup_response(res)]
    /\ UNCHANGED <<manifest_store, stream_info, rd, ing>>
    /\ UNCHANGED <<alert_vars, rbac_vars, http_vars>>

\* the manifests of the dates are deleted once their references are removed
RetentionDelete ==
    /\ ret.pc = "delete"
    /\ manifest_store' = [path \in DOMAIN manifest_store |->
                             IF path[2] \in SeqToSet(ret.date_list)
                             THEN delete_object(manifest_store, path)[path]
                             ELSE manifest_store[path]]
    /\ ret' = [ret EXCEPT !.pc = "returned"]
    /\ UNCHANGED <<stream_jsons, metas, stream_info, rd, ing>>
    /\ UNCHANGED <<alert_vars, rbac_vars, http_vars>>

RetentionReturn ==
    /\ ret.pc = "returned"
    /\ ret' = IdleRetention(ret.runs + 1)
    /\ UNCHANGED <<stream_jsons, manifest_store, metas, stream_info, rd, ing>>
    /\ UNCHANGED <<alert_vars, rbac_vars, http_vars>>

----------------------------------------------------------------------------
(* The catalog under concurrent ingest, retention and reads *)

ReaderRanges == {[start |-> 0, end |-> 30], [start |-> 10, end |-> 20]}
StreamNames == {StreamName, "unknown"}

Init ==
    /\ metas = [node \in Nodes |->
                   [time_partition |-> None,
                    manifest_list |-> IF node = IngestNode THEN <<preexisting_item>> ELSE <<>>]]
    /\ stream_jsons = [node \in Nodes |->
                   to_bytes([time_partition |-> None,
                             manifest_list |-> IF node = IngestNode THEN <<preexisting_item>> ELSE <<>>])]
    /\ manifest_store = [path \in AllManifestPaths |->
                   IF path[2] = PreexistingDate
                   THEN Some([files |-> files_for(PreexistingDate, [lower |-> 25, upper |-> 30])])
                   ELSE None]
    /\ stream_info = {StreamName}
    /\ rd = IdleReader
    /\ ing = [t \in Tasks |-> IdleTask]
    /\ ret = IdleRetention(0)
    /\ AlertsAtRest
    /\ RbacAtRest
    /\ HttpAtRest

Next ==
    \/ \E t \in Tasks : WriteManifest(t)
    \/ \E t \in Tasks : ReadSnapshot(t)
    \/ \E t \in Tasks : WriteSnapshot(t)
    \/ \E t \in Tasks : Crash(t)
    \/ \E stream_name \in StreamNames : \E date \in Dates : RetentionCleanup(stream_name, <<date>>)
    \/ RetentionRead
    \/ RetentionWrite
    \/ RetentionDelete
    \/ RetentionReturn
    \/ \E time_range \in ReaderRanges : GetStreamJson(time_range)
    \/ GetAllStreamJsons
    \/ GetManifest
    \/ ReaderReturn

Spec == Init /\ [][Next]_vars

----------------------------------------------------------------------------
(* Properties of the pruner *)

HasSelected == rd.pc \in {"get_manifest", "done"} \/ (rd.pc \in {"err", "panic"} /\ rd.missing.some)

OptionalTimes == {None} \cup {Some(t) : t \in RangeTimes}

filters_of(L, U) ==
    (IF L.some THEN <<[side |-> "Low", bound |-> "Included", time |-> L.val]>> ELSE <<>>)
    \o (IF U.some THEN <<[side |-> "High", bound |-> "Excluded", time |-> U.val]>> ELSE <<>>)

disjoint_from(item, L, U) ==
    \/ L.some /\ item.time_upper_bound < L.val
    \/ U.some /\ item.time_lower_bound >= U.val

\* C1: the manifest selection returns exactly the manifest references that
\* are not disjoint from the filter: a manifest is left out iff its upper
\* bound is strictly before the lower bound L or its lower bound is at or
\* after the exclusive upper bound U; each of L and U is optional, and the
\* call of fetch_parquet_file_paths selects with L = start and U = end.
C1_ManifestSelectionExact ==
    HasSelected =>
        /\ rd.selected = SelectSeq(rd.merged,
               LAMBDA item : ~disjoint_from(item, Some(rd.time_range.start), Some(rd.time_range.end)))
        /\ \A L \in OptionalTimes : \A U \in OptionalTimes :
               manifests(rd.merged, filters_of(L, U))
                   = SelectSeq(rd.merged, LAMBDA item : ~disjoint_from(item, L, U))

C1_Witness ==
    /\ HasSelected
    /\ Len(rd.merged) = 2
    /\ Len(rd.selected) = 1
    /\ \E i \in 1..2 : rd.merged[i].time_upper_bound < rd.time_range.start
    /\ \E i \in 1..2 : rd.merged[i].time_lower_bound < rd.time_range.end
                       /\ rd.merged[i].time_upper_bound = rd.time_range.start

\* the snapshot of C2: M1 covers [0,10) and M2 covers [10,20), so that their
\* inclusive bounds are [0,9] and [10,19]
TwoAdjacentManifests ==
    /\ Len(rd.merged) = 2
    /\ \E i, j \in 1..2 :
          /\ rd.merged[i].time_lower_bound = 0 /\ rd.merged[i].time_upper_bound = 9
          /\ rd.merged[j].time_lower_bound = 10 /\ rd.merged[j].time_upper_bound = 19

\* C2: with M1 covering [0,10) and M2 covering [10,20), the range [5,15)
\* selects exactly {M1, M2} and the range [20,30) selects nothing.
C2_AdjacentManifests ==
    (HasSelected /\ TwoAdjacentManifests) =>
        /\ rd.time_range = [start |-> 5, end |-> 15] => SeqToSet(rd.selected) = SeqToSet(rd.merged)
        /\ rd.time_range = [start |-> 20, end |-> 30] => rd.selected = <<>>

C2_Witness ==
    /\ HasSelected /\ TwoAdjacentManifests
    /\ rd.time_range = [start |-> 5, end |-> 15]
    /\ Len(rd.selected) = 2

permute(list, p) == [i \in 1..Len(list) |-> list[p[i]]]
Perms(n) == {p \in [1..n -> 1..n] : \A i, j \in 1..n : p[i] = p[j] => i = j}

overlap(a, b) ==
    a.time_lower_bound <= b.time_upper_bound /\ b.time_lower_bound <= a.time_upper_bound

\* C3: the set of selected manifests is the same for every permutation of
\* the manifest list, and a manifest is selected exactly when it is selected
\* from the list that holds it alone, also when ranges overlap.
C3_OrderAndOverlapIndependent ==
    HasSelected =>
        /\ \A p \in Perms(Len(rd.merged)) :
               SeqToSet(select_manifests(permute(rd.merged, p), rd.time_range, rd.time_partition))
                   = SeqToSet(rd.selected)
        /\ \A i \in 1..Len(rd.merged) :
               (rd.merged[i] \in SeqToSet(rd.selected))
                   <=> (select_manifests(<<rd.merged[i]>>, rd.time_range, rd.time_partition) /= <<>>)

C3_Witness ==
    /\ HasSelected
    /\ Len(rd.merged) = 2
    /\ overlap(rd.merged[1], rd.merged[2])
    /\ rd.merged[1].time_lower_bound > rd.merged[2].time_lower_bound
    /\ rd.selected = <<rd.merged[2]>>

fetched_files == SeqToSet(FlatMapFiles(rd.manifest_files))

\* C4: a file whose bounds lie fully outside a filter's range is pruned; a
\* file whose bounds lie fully inside it or straddle its boundary is not;
\* the retain loop of the call drops exactly the files outside the range.
C4_CanBePruned ==
    /\ \A file \in fetched_files : \A t \in TimePoints \cup RangeTimes :
          LET low == binary_expr([side |-> "Low", bound |-> "Included", time |-> t], "c")
              high == binary_expr([side |-> "High", bound |-> "Excluded", time |-> t], "c")
          IN  /\ file.upper < t => can_be_pruned(file, low)
              /\ file.lower >= t => ~can_be_pruned(file, low)
              /\ (file.lower < t /\ t <= file.upper) => ~can_be_pruned(file, low)
              /\ file.lower >= t => can_be_pruned(file, high)
              /\ file.upper < t => ~can_be_pruned(file, high)
              /\ (file.lower < t /\ t <= file.upper) => ~can_be_pruned(file, high)
    /\ rd.pc = "done" =>
          \A file \in fetched_files :
              (file \in SeqToSet(selected_files(rd.manifest_files, rd.time_range, rd.time_partition)))
                  <=> ~(file.upper < rd.time_range.start \/ file.lower >= rd.time_range.end)

C4_Witness ==
    /\ rd.pc = "done"
    /\ \E file \in fetched_files : file.upper < rd.time_range.start
    /\ \E file \in fetched_files : file.lower >= rd.time_range.end
    /\ \E file \in fetched_files :
          /\ file.lower < rd.time_range.start /\ rd.time_range.start <= file.upper
          /\ file \in SeqToSet(selected_files(rd.manifest_files, rd.time_range, rd.time_partition))

returned_files == UNION {SeqToSet(rd.result[date]) : date \in DOMAIN rd.result}

stored_files(item) ==
    IF manifest_store[item.manifest_path].some
    THEN SeqToSet(manifest_store[item.manifest_path].val.files)
    ELSE {}

expected_files ==
    {file \in UNION {stored_files(rd.merged[i]) : i \in 1..Len(rd.merged)} :
        /\ \E i \in 1..Len(rd.merged) :
              /\ file \in stored_files(rd.merged[i])
              /\ rd.merged[i].time_upper_bound >= rd.time_range.start
              /\ rd.merged[i].time_lower_bound < rd.time_range.end
        /\ ~(file.upper < rd.time_range.start)
        /\ ~(file.lower >= rd.time_range.end)
        /\ ~(file_date(file) < rd.time_range.start)}

\* C5: the call returns, grouped by the date/hour/minute segments of the
\* path, exactly the files of the kept manifests that no filter prunes and
\* whose path date-time is not before the start; each returned file is in
\* the one group of its own path segments, once.
C5_ReturnedFilesExact ==
    rd.pc = "done" =>
        /\ returned_files = expected_files
        /\ \A date \in DOMAIN rd.result :
              /\ rd.result[date] /= <<>>
              /\ \A i \in 1..Len(rd.result[date]) : group_key(rd.result[date][i]) = date
              /\ Cardinality(SeqToSet(rd.result[date])) = Len(rd.result[date])

C5_Witness ==
    /\ rd.pc = "done"
    /\ DOMAIN rd.result /= {}
    /\ Len(rd.selected) < Len(rd.merged)
    /\ \E file \in fetched_files :
          /\ ~(file.upper < rd.time_range.start) /\ ~(file.lower >= rd.time_range.end)
          /\ file_date(file) < rd.time_range.start
    /\ \E file \in fetched_files : file.upper < rd.time_range.start

persisted_refs == UNION {SeqToSet(metas[node].manifest_list) : node \in Nodes}

----------------------------------------------------------------------------
(* Properties of the catalog under concurrency *)

persisted_snapshot == from_slice(stream_jsons[IngestNode]).val.manifest_list

C7_NoDanglingReference ==
    rd.pc = "get_manifest" =>
        \A i \in 1..Len(rd.todo) : manifest_store[rd.todo[i].manifest_path].some

remaining_lower_bounds ==
    {ret.meta.manifest_list[i].time_lower_bound : i \in 1..Len(ret.meta.manifest_list)}

\* C8: a removal that succeeds hands back the minimum time_lower_bound of
\* the manifests that remain, or none when none remains, and
\* retention_cleanup answers with that value; with lower bounds {5, 15, 25},
\* removing the manifest with lower bound 5 yields 15.
C8_FirstEventAt ==
    (ret.pc \in {"delete", "returned"} /\ ret.res.ok) =>
        /\ IF remaining_lower_bounds = {}
           THEN ret.res.val = None
           ELSE /\ ret.res.val.some
                /\ ret.res.val.val \in remaining_lower_bounds
                /\ \A lower \in remaining_lower_bounds : ret.res.val.val <= lower
        /\ ret.response = [status |-> "OK", first_event_at |-> ret.res.val]
        /\ (ret.date_list = <<1>> /\ remaining_lower_bounds = {15, 25})
               => ret.response.first_event_at = Some(15)

C8_Witness ==
    /\ ret.pc = "delete"
    /\ ret.date_list = <<1>>
    /\ remaining_lower_bounds = {15, 25}
    /\ ret.response.first_event_at = Some(15)
    /\ ingest_item(1) \notin SeqToSet(persisted_snapshot)

\* C9: a read that meets a snapshot reference whose manifest is missing
\* neither fails nor aborts.
C9_MissingManifestSkipped ==
    rd.missing.some => rd.pc \notin {"err", "panic"}

----------------------------------------------------------------------------
(* Alert configuration: construction and validation *)

Ok == [ok |-> TRUE, err |-> "none"]
Err(kind) == [ok |-> FALSE, err |-> kind]

\* impl From<AlertRequest> for AlertConfig, with the id Ulid::new() made
alert_from(val, id) ==
    [id |-> id, title |-> val.title, state |-> AlertState_default,
     eval_start |-> val.eval_start, eval_frequency |-> val.eval_frequency,
     targets |-> val.targets, aggregates |-> val.aggregates]

\* AlertConfig::modify
modify_keeping_state(self, alert) ==
    [self EXCEPT !.title = alert.title,
                 !.eval_start = alert.eval_start,
                 !.eval_frequency = alert.eval_frequency,
                 !.aggregates = alert.aggregates,
                 !.targets = alert.targets]

modify(self, alert) ==
    [self EXCEPT !.title = alert.title,
                 !.eval_start = alert.eval_start,
                 !.eval_frequency = alert.eval_frequency,
                 !.aggregates = alert.aggregates,
                 !.targets = alert.targets,
                 !.state = AlertState_default]

\* humantime::parse_duration(..).is_err(): a number followed by a unit
parse_duration_is_err(eval_start) == eval_start \notin {"5m", "1h"}

\* lines 542-554: the first finite-retry target whose interval times its
\* repeat count, in seconds, is greater than eval_frequency minutes rejects
\* (the repeat counts of the model are below 2^32, so the cast keeps them)
RECURSIVE targets_rejected_on_equal(_, _)
targets_rejected_on_equal(targets, eval_frequency) ==
    IF targets = <<>> THEN FALSE
    ELSE LET target == Head(targets)
         IN  \/ /\ target.timeout.times.kind = "Finite"
                /\ target.timeout.interval * target.timeout.times.repeat >= eval_frequency * 60
             \/ targets_rejected_on_equal(Tail(targets), eval_frequency)

RECURSIVE targets_rejected(_, _)
targets_rejected(targets, eval_frequency) ==
    IF targets = <<>> THEN FALSE
    ELSE LET target == Head(targets)
             notif_duration == target.timeout.interval * target.timeout.times.repeat
         IN  \/ /\ target.timeout.times.kind = "Finite"
                /\ notif_duration > eval_frequency * 60
             \/ targets_rejected(Tail(targets), eval_frequency)

\* lines 602-626
validate_condition_config(config) ==
    IF ~config.some THEN Ok
    ELSE IF config.val.operator.some
         THEN (IF Len(config.val.condition_config) /= 2
               THEN Err("CustomError") ELSE Ok)
         ELSE (IF Len(config.val.condition_config) /= 1
               THEN Err("CustomError") ELSE Ok)

\* lines 628-657; with an operator, agg1 and agg2 are both aggregate_config[0]
validate_configs(self) ==
    IF self.aggregates.operator.some
    THEN IF Len(self.aggregates.aggregate_config) /= 2
         THEN Err("CustomError")
         ELSE LET agg1 == self.aggregates.aggregate_config[1]
                  agg2 == self.aggregates.aggregate_config[1]
              IN  IF ~validate_condition_config(agg1.conditions).ok
                  THEN validate_condition_config(agg1.conditions)
                  ELSE validate_condition_config(agg2.conditions)
    ELSE IF Len(self.aggregates.aggregate_config) /= 1
         THEN Err("CustomError")
         ELSE validate_condition_config(self.aggregates.aggregate_config[1].conditions)

\* what the rest of validate (lines 559-598) can answer: the plan of the
\* select, the stream lookup and the column selection each succeed or fail
QueryOutcomes == {"none", "DatafusionError", "StreamNotFound", "CustomError"}

\* AlertConfig::validate
validate(self, query_outcome) ==
    IF parse_duration_is_err(self.eval_start) THEN Err("Metadata")
    ELSE IF targets_rejected(self.targets, self.eval_frequency) THEN Err("Metadata")
    ELSE IF ~validate_configs(self).ok THEN validate_configs(self)
    ELSE IF query_outcome /= "none" THEN Err(query_outcome)
    ELSE Ok

----------------------------------------------------------------------------
(* The alert registry and the scheduled tasks *)

\* Alerts::get_alert_by_id
get_alert_by_id(map, id) ==
    IF map[id].some THEN [ok |-> TRUE, val |-> map[id].val] ELSE [ok |-> FALSE, val |-> NoAlert]

\* Alerts::update
update(map, alert) == [map EXCEPT ![alert.id] = Some(alert)]

\* Alerts::delete
delete(map, alert_id) == [map EXCEPT ![alert_id] = None]

\* Alerts::update_task: the entry of the id is replaced
update_task(tasks_map, id, handle) == [tasks_map EXCEPT ![id] = Some(handle)]

\* Alerts::delete_task: the entry of the id is removed
delete_task(tasks_map, alert_id) == [tasks_map EXCEPT ![alert_id] = None]

\* an entry (JoinHandle, Receiver, Sender) that leaves the map is dropped:
\* the dropped Sender closes the task's inbox, the dropped JoinHandle
\* detaches the task, which keeps running; nothing is sent
drop_handlers(tasks, entry) ==
    IF entry.some
    THEN [tasks EXCEPT ![entry.val].inbox = IF @ = "open" THEN "closed" ELSE @]
    ELSE tasks

\* schedule_alert_task: a task is spawned with its clone of the alert and
\* an open inbox
schedule_alert_task(tasks, handle, alert) ==
    [tasks EXCEPT ![handle] = [NoTask EXCEPT !.pc = "waiting", !.alert = alert]]

free_handles(tasks) == {t \in TaskIds : tasks[t].pc = "unspawned"}

\* an id that Ulid::new() can make: one that was never given out
fresh_ids ==
    {id \in AlertIds : /\ ~alerts[id].some /\ ~alert_store[id].some
                       /\ \A t \in TaskIds : alert_tasks[t].alert.id /= id}

\* lines 859-893: where update_state goes on after the step at pc, given
\* whether the step succeeded
update_state_notify_first(pc, ok, trigger_notif) ==
    CASE pc = "get" -> IF ok THEN (IF trigger_notif.some THEN "notify" ELSE "put") ELSE "return"
      [] pc = "notify" -> "put"
      [] pc = "put" -> IF ok THEN "mem" ELSE "return"
      [] pc = "mem" -> "return"

update_state_ignoring_put_error(pc, ok, trigger_notif) ==
    CASE pc = "get" -> IF ok THEN "put" ELSE "return"
      [] pc = "put" -> "mem"
      [] pc = "mem" -> IF trigger_notif.some THEN "notify" ELSE "return"
      [] pc = "notify" -> "return"

update_state(pc, ok, trigger_notif) ==
    CASE pc = "get" -> IF ok THEN "put" ELSE "return"
      [] pc = "put" -> IF ok THEN "mem" ELSE "return"
      [] pc = "mem" -> IF trigger_notif.some THEN "notify" ELSE "return"
      [] pc = "notify" -> "return"

\* the task back in its select once the tick has ended with the result
task_waiting_unless_error(task, result) ==
    [NoTask EXCEPT !.pc = IF result = "Ok" THEN "waiting" ELSE "exited",
                   !.alert = task.alert, !.inbox = task.inbox, !.result = result]

task_waiting(task, result) ==
    [NoTask EXCEPT !.pc = "waiting", !.alert = task.alert, !.inbox = task.inbox,
                   !.result = result]

\* the task after a step of the update_state call of its tick
task_after(task, pc, ok) ==
    LET next == update_state(pc, ok, task.trigger_notif)
    IN  IF next = "return"
        THEN task_waiting(task, IF ok THEN "Ok" ELSE "Err")
        ELSE [task EXCEPT !.pc = next]

----------------------------------------------------------------------------
(* One evaluation task: it waits on its timer and on its inbox; a tick runs *)
(* the query, decides the transition and calls update_state                 *)

\* the transition a tick asks for, given the state in the map and whether
\* the aggregate condition holds: Resolved -> Triggered with a message for
\* the targets, Triggered -> Resolved, and nothing otherwise
update_alert_state(state, final_res) ==
    IF final_res /\ state = "Resolved"
    THEN Some([new_state |-> "Triggered", trigger_notif |-> Some("message")])
    ELSE IF ~final_res /\ state = "Triggered"
         THEN Some([new_state |-> "Resolved", trigger_notif |-> None])
         ELSE None

\* the timer of the task fires: the tick starts
TaskTick(t) ==
    /\ alert_tasks[t].pc = "waiting"
    /\ alert_tasks' = [alert_tasks EXCEPT ![t] = [@ EXCEPT !.pc = "query", !.result = "none"]]
    /\ UNCHANGED <<alerts, alert_store, scheduled_tasks, notifs, post>>
    /\ UNCHANGED <<catalog_vars, rbac_vars, http_vars>>

\* the query of the tick ends: a failure is logged and the tick skipped;
\* otherwise the transition, if any, is handed to update_state
TaskQuery(t) ==
    /\ alert_tasks[t].pc = "query"
    /\ \E outcome \in {"failed", "true", "false"} :
          LET task == alert_tasks[t]
              got == get_alert_by_id(alerts, task.alert.id)
              decision == update_alert_state(got.val.state, outcome = "true")
          IN  alert_tasks' = [alert_tasks EXCEPT ![t] =
                  IF outcome = "failed" THEN task_waiting(task, "QueryFailed")
                  ELSE IF ~got.ok THEN task_waiting(task, "Err")
                  ELSE IF ~decision.some
                       THEN task_waiting(task, "Ok")
                       ELSE [task EXCEPT !.pc = "get",
                                         !.new_state = decision.val.new_state,
                                         !.trigger_notif = decision.val.trigger_notif]]
    /\ UNCHANGED <<alerts, alert_store, scheduled_tasks, notifs, post>>
    /\ UNCHANGED <<catalog_vars, rbac_vars, http_vars>>

\* lines 868-873: the alert is read from the map and given the new state
UpdateStateGet(t) ==
    /\ alert_tasks[t].pc = "get"
    /\ LET task == alert_tasks[t]
           got == get_alert_by_id(alerts, task.alert.id)
       IN  alert_tasks' = [alert_tasks EXCEPT ![t] =
               task_after([task EXCEPT !.updated = IF got.ok
                                                   THEN [got.val EXCEPT !.state = task.new_state]
                                                   ELSE NoAlert],
                          "get", got.ok)]
    /\ UNCHANGED <<alerts, alert_store, scheduled_tasks, notifs, post>>
    /\ UNCHANGED <<catalog_vars, rbac_vars, http_vars>>

\* line 876: put_alert; a storage error is returned
UpdateStatePut(t) ==
    /\ alert_tasks[t].pc = "put"
    /\ \E storage_ok \in BOOLEAN :
          LET task == alert_tasks[t]
          IN  /\ alert_store' = IF storage_ok
                                THEN [alert_store EXCEPT ![task.updated.id] = Some(task.updated)]
                                ELSE alert_store
              /\ alert_tasks' = [alert_tasks EXCEPT ![t] =
                     task_after([task EXCEPT !.saved = storage_ok], "put", storage_ok)]
    /\ UNCHANGED <<alerts, scheduled_tasks, notifs, post>>
    /\ UNCHANGED <<catalog_vars, rbac_vars, http_vars>>

\* lines 879-885: the state of the alert in the map, when it is still there
UpdateStateMem(t) ==
    /\ alert_tasks[t].pc = "mem"
    /\ LET task == alert_tasks[t]
       IN  /\ alerts' = IF alerts[task.updated.id].some
                        THEN [alerts EXCEPT ![task.updated.id].val.state = task.new_state]
                        ELSE alerts
           /\ alert_tasks' = [alert_tasks EXCEPT ![t] = task_after(task, "mem", TRUE)]
    /\ UNCHANGED <<alert_store, scheduled_tasks, notifs, post>>
    /\ UNCHANGED <<catalog_vars, rbac_vars, http_vars>>

\* lines 887-890 and trigger_notifications: every target is called with the
\* context of the alert; a call is fire and forget, it may not be delivered,
\* and trigger_notifications answers Ok
UpdateStateNotify(t) ==
    /\ alert_tasks[t].pc = "notify"
    /\ \E delivered \in BOOLEAN :
          LET task == alert_tasks[t]
          IN  /\ notifs' = IF task.updated.targets = <<>> THEN notifs
                           ELSE notifs \cup {[alert_id |-> task.updated.id,
                                              alert_state |-> task.updated.state,
                                              delivered |-> delivered]}
              /\ alert_tasks' = [alert_tasks EXCEPT ![t] = task_after(task, "notify", TRUE)]
    /\ UNCHANGED <<alerts, alert_store, scheduled_tasks, post>>
    /\ UNCHANGED <<catalog_vars, rbac_vars, http_vars>>

\* the inbox of the waiting task holds a signal, or its sender is gone: the
\* receiving branch of the select is ready and the task exits
TaskExit(t) ==
    /\ alert_tasks[t].pc = "waiting"
    /\ alert_tasks[t].inbox \in {"sent", "closed"}
    /\ alert_tasks' = [alert_tasks EXCEPT ![t] =
           [NoTask EXCEPT !.pc = "exited", !.alert = alert_tasks[t].alert,
                          !.inbox = alert_tasks[t].inbox]]
    /\ UNCHANGED <<alerts, alert_store, scheduled_tasks, notifs, post>>
    /\ UNCHANGED <<catalog_vars, rbac_vars, http_vars>>

----------------------------------------------------------------------------
(* The alert requests of the HTTP layer: each validates, persists, updates  *)
(* the map and registers the task, in this order                            *)

SeqsUpTo(S, n) == UNION {[1..k -> S] : k \in 0..n}

Finite(repeat) == [kind |-> "Finite", repeat |-> repeat]
Infinite == [kind |-> "Infinite", repeat |-> 0]

\* interval in seconds
target_of(interval, times) == [timeout |-> [interval |-> interval, times |-> times]]

one_aggregate == [operator |-> None, aggregate_config |-> <<[conditions |-> None]>>]

ValidRequest(title) ==
    [title |-> title, eval_start |-> "5m", eval_frequency |-> 5,
     targets |-> <<target_of(120, Finite(2))>>, aggregates |-> one_aggregate]

AlertTitles == {"a", "b"}

\* the alert is built from the request, with a new id
PostAlert(request) ==
    /\ post.pc = "idle"
    /\ fresh_ids /= {}
    /\ free_handles(alert_tasks) /= {}
    /\ post' = [IdlePost EXCEPT !.pc = "validate",
                                !.alert = alert_from(request, SetMin(fresh_ids))]
    /\ UNCHANGED <<alerts, alert_store, scheduled_tasks, alert_tasks, notifs>>
    /\ UNCHANGED <<catalog_vars, rbac_vars, http_vars>>

PostValidate ==
    /\ post.pc = "validate"
    /\ \E query_outcome \in QueryOutcomes :
          LET res == validate(post.alert, query_outcome)
          IN  post' = IF res.ok THEN [post EXCEPT !.pc = "save"]
                      ELSE [post EXCEPT !.pc = "rejected", !.response = res.err]
    /\ UNCHANGED <<alerts, alert_store, scheduled_tasks, alert_tasks, notifs>>
    /\ UNCHANGED <<catalog_vars, rbac_vars, http_vars>>

PostSave ==
    /\ post.pc = "save"
    /\ \E storage_ok \in BOOLEAN :
          IF storage_ok
          THEN /\ alert_store' = [alert_store EXCEPT ![post.alert.id] = Some(post.alert)]
               /\ post' = [post EXCEPT !.pc = "register"]
          ELSE /\ alert_store' = alert_store
               /\ post' = [post EXCEPT !.pc = "rejected", !.response = "ObjectStorage"]
    /\ UNCHANGED <<alerts, scheduled_tasks, alert_tasks, notifs>>
    /\ UNCHANGED <<catalog_vars, rbac_vars, http_vars>>

PostRegister ==
    /\ post.pc = "register"
    /\ LET handle == SetMin(free_handles(alert_tasks))
       IN  /\ alerts' = update(alerts, post.alert)
           /\ alert_tasks' = drop_handlers(schedule_alert_task(alert_tasks, handle, post.alert),
                                           scheduled_tasks[post.alert.id])
           /\ scheduled_tasks' = update_task(scheduled_tasks, post.alert.id, handle)
    /\ post' = [post EXCEPT !.pc = "done", !.response = "Ok"]
    /\ UNCHANGED <<alert_store, notifs>>
    /\ UNCHANGED <<catalog_vars, rbac_vars, http_vars>>

PostReturn ==
    /\ post.pc \in {"rejected", "done"}
    /\ post' = IdlePost
    /\ UNCHANGED <<alerts, alert_store, scheduled_tasks, alert_tasks, notifs>>
    /\ UNCHANGED <<catalog_vars, rbac_vars, http_vars>>

\* an alert of the map is modified: validated, persisted, put in the map
\* and given a new task
ModifyAlert(id, request) ==
    /\ post.pc = "idle"
    /\ alerts[id].some
    /\ free_handles(alert_tasks) /= {}
    /\ \E query_outcome \in QueryOutcomes : \E storage_ok \in BOOLEAN :
          LET alert == modify(alerts[id].val, request)
              handle == SetMin(free_handles(alert_tasks))
          IN  IF validate(alert, query_outcome).ok /\ storage_ok
              THEN /\ alert_store' = [alert_store EXCEPT ![id] = Some(alert)]
                   /\ alerts' = update(alerts, alert)
                   /\ alert_tasks' = drop_handlers(schedule_alert_task(alert_tasks, handle, alert),
                                                   scheduled_tasks[id])
                   /\ scheduled_tasks' = update_task(scheduled_tasks, id, handle)
              ELSE UNCHANGED <<alerts, alert_store, scheduled_tasks, alert_tasks>>
    /\ UNCHANGED <<notifs, post>>
    /\ UNCHANGED <<catalog_vars, rbac_vars, http_vars>>

\* an alert is deleted: from the metastore, then Alerts::delete, then
\* Alerts::delete_task
DeleteAlert(alert_id) ==
    /\ post.pc = "idle"
    /\ alerts[alert_id].some
    /\ \E storage_ok \in BOOLEAN :
          IF storage_ok
          THEN /\ alert_store' = [alert_store EXCEPT ![alert_id] = None]
               /\ alerts' = delete(alerts, alert_id)
               /\ scheduled_tasks' = delete_task(scheduled_tasks, alert_id)
               /\ alert_tasks' = drop_handlers(alert_tasks, scheduled_tasks[alert_id])
          ELSE UNCHANGED <<alerts, alert_store, scheduled_tasks, alert_tasks>>
    /\ UNCHANGED <<notifs, post>>
    /\ UNCHANGED <<catalog_vars, rbac_vars, http_vars>>

\* Alerts::load, from the alerts of the metastore on: each gets a task,
\* which is registered, and is put in the map
RECURSIVE load_from(_, _)
load_from(id, registry) ==
    IF id > MaxAlerts THEN registry
    ELSE IF ~alert_store[id].some THEN load_from(id + 1, registry)
    ELSE LET alert == alert_store[id].val
             handle == SetMin(free_handles(registry.alert_tasks))
         IN  load_from(id + 1,
                 [alert_tasks |-> drop_handlers(
                                      schedule_alert_task(registry.alert_tasks, handle, alert),
                                      registry.scheduled_tasks[id]),
                  scheduled_tasks |-> update_task(registry.scheduled_tasks, id, handle),
                  alerts |-> update(registry.alerts, alert)])

\* Alerts::load; when get_alerts fails there is nothing to load
Load ==
    /\ post.pc = "idle"
    /\ Cardinality(free_handles(alert_tasks)) >= Cardinality({id \in AlertIds : alert_store[id].some})
    /\ \E storage_ok \in BOOLEAN :
          LET registry == [alert_tasks |-> alert_tasks, scheduled_tasks |-> scheduled_tasks,
                           alerts |-> alerts]
              loaded == IF storage_ok THEN load_from(1, registry) ELSE registry
          IN  /\ alerts' = loaded.alerts
              /\ scheduled_tasks' = loaded.scheduled_tasks
              /\ alert_tasks' = loaded.alert_tasks
    /\ UNCHANGED <<alert_store, notifs, post>>
    /\ UNCHANGED <<catalog_vars, rbac_vars, http_vars>>

----------------------------------------------------------------------------
(* The alert registry with its tasks and requests *)

CatalogAtRest ==
    /\ metas = [node \in Nodes |-> [time_partition |-> None, manifest_list |-> <<>>]]
    /\ stream_jsons = [node \in Nodes |-> to_bytes(metas[node])]
    /\ manifest_store = [path \in AllManifestPaths |-> None]
    /\ stream_info = {StreamName}
    /\ rd = IdleReader
    /\ ing = [t \in Tasks |-> IdleTask]
    /\ ret = IdleRetention(0)

stored_alert(id, state) == [alert_from(ValidRequest("a"), id) EXCEPT !.state = state]

InitAlerts ==
    /\ CatalogAtRest
    /\ HttpAtRest
    /\ RbacAtRest
    /\ alerts = [id \in AlertIds |-> None]
    /\ \E stored \in [AlertIds -> {"none"} \cup AlertStates] :
          alert_store = [id \in AlertIds |->
                            IF stored[id] = "none" THEN None ELSE Some(stored_alert(id, stored[id]))]
    /\ scheduled_tasks = [id \in AlertIds |-> None]
    /\ alert_tasks = [t \in TaskIds |-> NoTask]
    /\ notifs = {}
    /\ post = IdlePost

NextAlerts ==
    \/ Load
    \/ PostAlert(ValidRequest("a"))
    \/ PostValidate
    \/ PostSave
    \/ PostRegister
    \/ PostReturn
    \/ \E id \in AlertIds : \E title \in AlertTitles : ModifyAlert(id, ValidRequest(title))
    \/ \E id \in AlertIds : DeleteAlert(id)
    \/ \E t \in TaskIds : TaskTick(t)
    \/ \E t \in TaskIds : TaskQuery(t)
    \/ \E t \in TaskIds : UpdateStateGet(t)
    \/ \E t \in TaskIds : UpdateStatePut(t)
    \/ \E t \in TaskIds : UpdateStateMem(t)
    \/ \E t \in TaskIds : UpdateStateNotify(t)
    \/ \E t \in TaskIds : TaskExit(t)

SpecAlerts == InitAlerts /\ [][NextAlerts]_vars

----------------------------------------------------------------------------
(* Alert creation over every shape of request *)

RetryIntervals == {60, 120}
Retries == {Infinite} \cup {Finite(repeat) : repeat \in 1..MaxRepeat}
TargetShapes == {target_of(interval, times) : interval \in RetryIntervals, times \in Retries}

LogicalOperators == {None, Some("And")}
ConditionShapes ==
    {None} \cup {Some([operator |-> op, condition_config |-> cc]) :
                    op \in LogicalOperators, cc \in SeqsUpTo({"column"}, 2)}
AggregateShapes ==
    {[operator |-> op, aggregate_config |-> [i \in DOMAIN cs |-> [conditions |-> cs[i]]]] :
        op \in LogicalOperators, cs \in SeqsUpTo(ConditionShapes, 2)}

AllAlertRequests ==
    {[title |-> "a", eval_start |-> eval_start, eval_frequency |-> 5,
      targets |-> targets, aggregates |-> aggregates] :
        eval_start \in {"5m", "soon"},
        targets \in SeqsUpTo(TargetShapes, MaxTargets),
        aggregates \in AggregateShapes}

InitValidate == CatalogAtRest /\ RbacAtRest /\ AlertsAtRest /\ HttpAtRest

NextValidate ==
    \/ \E request \in AllAlertRequests : PostAlert(request)
    \/ PostValidate
    \/ PostSave
    \/ PostRegister

SpecValidate == InitValidate /\ [][NextValidate]_vars

----------------------------------------------------------------------------
(* Properties of alert validation *)

validated == post.pc \in {"save", "register", "done", "rejected"}
accepted == post.pc \in {"save", "register", "done"}

\* the total notification duration of a finite-retry target, in seconds
total_duration(target) == target.timeout.interval * target.timeout.times.repeat

exceeds_eval_frequency(alert) ==
    \E i \in 1..Len(alert.targets) :
        /\ alert.targets[i].timeout.times.kind = "Finite"
        /\ total_duration(alert.targets[i]) > alert.eval_frequency * 60

one_level(operator, configs) ==
    IF operator.some THEN Len(configs) = 2 ELSE Len(configs) = 1

\* C18: validation accepts only condition trees of one level: two aggregate
\* configs with an AND/OR operator and one without, and in every aggregate
\* config, the second as well as the first, a conditions block (when
\* present) of two entries with an operator and of one without.
C18_OneLevelConditions ==
    accepted =>
        /\ one_level(post.alert.aggregates.operator, post.alert.aggregates.aggregate_config)
        /\ \A i \in 1..Len(post.alert.aggregates.aggregate_config) :
              LET config == post.alert.aggregates.aggregate_config[i].conditions
              IN  config.some => one_level(config.val.operator, config.val.condition_config)

----------------------------------------------------------------------------
(* Properties of the alert state machine *)

\* task t leaves the step at pc in this transition
leaves(t, pc) == alert_tasks[t].pc = pc /\ alert_tasks'[t].pc /= pc

\* C12: when a tick from Resolved finds the condition true, update_state
\* writes the Triggered alert to the metastore, and only a call whose write
\* has succeeded goes on to the map and to the targets; the dispatch,
\* delivered or not, changes neither the persisted nor the in-memory state,
\* and the call answers Ok.
C12_PersistBeforeNotify ==
    [][\A t \in TaskIds :
          LET task == alert_tasks[t]
          IN  (task.new_state = "Triggered" /\ task.trigger_notif.some) =>
                 /\ (leaves(t, "put") /\ alert_tasks'[t].pc /= "waiting") =>
                        /\ alert_store'[task.updated.id].some
                        /\ alert_store'[task.updated.id].val.state = "Triggered"
                        /\ notifs' = notifs
                 /\ leaves(t, "mem") =>
                        /\ task.saved
                        /\ notifs' = notifs
                        /\ alerts'[task.updated.id].some =>
                               alerts'[task.updated.id].val.state = "Triggered"
                 /\ leaves(t, "notify") =>
                        /\ task.saved
                        /\ alert_store' = alert_store
                        /\ alerts' = alerts
                        /\ alert_tasks'[t].pc = "waiting"
                        /\ alert_tasks'[t].result = "Ok"]_vars

C12_Witness ==
    \E t \in TaskIds : \E id \in AlertIds :
        /\ alert_tasks[t].pc = "waiting" /\ alert_tasks[t].result = "Ok"
        /\ alert_tasks[t].alert.id = id
        /\ [alert_id |-> id, alert_state |-> "Triggered", delivered |-> FALSE] \in notifs
        /\ [alert_id |-> id, alert_state |-> "Triggered", delivered |-> TRUE] \notin notifs
        /\ alert_store[id].some /\ alert_store[id].val.state = "Triggered"
        /\ alerts[id].some /\ alerts[id].val.state = "Triggered"

\* C13: update_state changes the state in the map only after its write to
\* the metastore has succeeded; when the write fails the call returns the
\* error, the map is unchanged and no target is called.
C13_PersistBeforeMemory ==
    [][\A t \in TaskIds :
          LET task == alert_tasks[t]
          IN  /\ (leaves(t, "put") /\ alert_tasks'[t].pc = "waiting") =>
                     /\ alert_tasks'[t].result = "Err"
                     /\ alerts' = alerts
                     /\ notifs' = notifs
              /\ leaves(t, "put") => alerts' = alerts
              /\ leaves(t, "get") => (alerts' = alerts /\ alert_store' = alert_store)
              /\ leaves(t, "mem") => task.saved
              /\ leaves(t, "notify") => task.saved
              /\ (task.pc \in {"get", "put"} /\ alert_tasks'[t].pc \notin {"put", "mem", "waiting"})
                     => alert_tasks'[t].pc = task.pc]_vars

C13_Witness ==
    \E t \in TaskIds : \E id \in AlertIds :
        /\ alert_tasks[t].pc = "mem" /\ alert_tasks[t].saved
        /\ alert_tasks[t].updated.id = id
        /\ alert_store[id].some /\ alert_store[id].val.state = "Triggered"
        /\ alerts[id].some /\ alerts[id].val.state = "Resolved"

\* C14: when the query of a tick fails, the map, the metastore and the
\* notifications are unchanged and the task is back in its select, as after
\* any other tick, from where the next tick starts.
C14_FailedTickSkipped ==
    [][\A t \in TaskIds :
          LET task == alert_tasks[t]
          IN  (leaves(t, "query") /\ alert_tasks'[t].result = "QueryFailed") =>
                 /\ alerts' = alerts
                 /\ alert_store' = alert_store
                 /\ notifs' = notifs
                 /\ alert_tasks'[t] = [task EXCEPT !.pc = "waiting", !.result = "QueryFailed"]]_vars

C14_Witness ==
    \E t \in TaskIds :
        /\ alert_tasks[t].pc = "waiting" /\ alert_tasks[t].result = "QueryFailed"
        /\ alert_tasks[t].inbox = "open"
        /\ alerts[alert_tasks[t].alert.id].some
        /\ alerts[alert_tasks[t].alert.id].val.state = "Triggered"
        /\ alert_store[alert_tasks[t].alert.id] = alerts[alert_tasks[t].alert.id]

\* C15: an alert built from a request is Resolved, and an alert whose
\* configuration is replaced by modify is Resolved, in the map and in the
\* metastore, whatever its state was.
C15_StartsResolved ==
    [][/\ post'.pc /= "idle" => post'.alert.state = "Resolved"
       /\ \A id \in AlertIds :
             (alerts[id].some /\ alerts'[id].some
                 /\ alerts'[id].val.title /= alerts[id].val.title) =>
                    /\ alerts'[id].val.state = "Resolved"
                    /\ alert_store'[id] = alerts'[id]
       /\ \A id \in AlertIds : \A title \in AlertTitles :
             alerts[id].some =>
                 modify(alerts[id].val, ValidRequest(title)) = alert_from(ValidRequest(title), id)]_vars

C15_Witness ==
    \E id \in AlertIds :
        /\ alerts[id].some /\ alerts[id].val.title = "b" /\ alerts[id].val.state = "Resolved"
        /\ \E t \in TaskIds : /\ alert_tasks[t].alert.title = "a"
                              /\ alert_tasks[t].pc = "mem"
                              /\ alert_tasks[t].new_state = "Triggered"

running(t) == alert_tasks[t].pc \notin {"unspawned", "exited"}

\* C16: once a request has been served, every alert of the map has exactly
\* one running task and every running task is for an alert of the map.
C16_OneTaskPerAlert ==
    post.pc = "idle" =>
        /\ \A id \in AlertIds :
              alerts[id].some =>
                  Cardinality({t \in TaskIds : running(t) /\ alert_tasks[t].alert.id = id}) = 1
        /\ \A t \in TaskIds : running(t) => alerts[alert_tasks[t].alert.id].some

\* C17: the task of an alert that has been deleted has been sent the
\* cancellation signal on its inbox.
C17_CancelSignalSent ==
    \A t \in TaskIds :
        (alert_tasks[t].pc /= "unspawned" /\ ~alerts[alert_tasks[t].alert.id].some
            /\ ~scheduled_tasks[alert_tasks[t].alert.id].some)
            => alert_tasks[t].inbox = "sent"

----------------------------------------------------------------------------
(* Users and roles: the persisted metadata and the in-memory tables *)

user_of(username, roles, hash) == [username |-> username, roles |-> roles, password_hash |-> hash]

\* metadata.users.iter().any(|user| user.username() == username)
has_user(meta, username) == \E i \in 1..Len(meta.users) : meta.users[i].username = username

\* metadata.users.push(user)
push_user(meta, user) == [meta EXCEPT !.users = Append(@, user)]

\* metadata.users.retain(|user| user.username() != username)
retain_users(meta, username) ==
    [meta EXCEPT !.users = SelectSeq(@, LAMBDA user : user.username /= username)]

\* the first user of the name gets the roles (put_role, lines 219-228)
set_roles(meta, username, roles) ==
    LET i == SetMin({j \in 1..Len(meta.users) : meta.users[j].username = username})
    IN  [meta EXCEPT !.users[i].roles = roles]

\* the first user of the name gets the hash (post_gen_password, lines 148-160)
set_password_hash(meta, username, hash) ==
    LET i == SetMin({j \in 1..Len(meta.users) : meta.users[j].username = username})
    IN  [meta EXCEPT !.users[i].password_hash = hash]

\* metadata.users.iter().any(|user| user.roles.contains(&name))
role_in_use(meta, name) == \E i \in 1..Len(meta.users) : name \in meta.users[i].roles

\* the in-memory tables: Users and roles of rbac::map
Users_contains(map, username) == map.users[username].some
Users_put_user(map, user) ==
    [map EXCEPT !.users[user.username] = Some([roles |-> user.roles, password_hash |-> user.password_hash])]
Users_delete_user(map, username) == [map EXCEPT !.users[username] = None]
Users_put_role(map, username, roles) ==
    IF map.users[username].some THEN [map EXCEPT !.users[username].val.roles = roles] ELSE map
Users_change_password_hash(map, username, hash) ==
    IF map.users[username].some THEN [map EXCEPT !.users[username].val.password_hash = hash] ELSE map

\* `let _ = UPDATE_LOCK.lock().await;`: the guard is bound to no variable,
\* so it is dropped at the end of the statement and the lock is free again
lock_after_let(h) == None

\* the handlers whose code takes UPDATE_LOCK
locking == {"post_user", "post_gen_password", "delete_user"}

\* the position of a request that has returned
returned(req, response) ==
    [IdleHandler EXCEPT !.pc = "returned", !.op = req.op, !.outer = req.outer,
                        !.username = req.username, !.name = req.name, !.response = response]

Privileges == {"reader"}
\* the hash of the password that new_basic and gen_new_password generate
new_basic_hash == "h1"
gen_new_password_hash == "h2"
RoleSets == SUBSET RoleNames

\* what one request of the user and role API carries
request_of(op, username, name, roles) ==
    [IdleHandler EXCEPT !.op = op, !.username = username, !.name = name, !.roles = roles]

RbacRequests ==
    {request_of("post_user", username, "", roles) : username \in Usernames, roles \in RoleSets}
    \cup {request_of(op, username, "", {}) : op \in {"post_gen_password", "delete_user"}, username \in Usernames}
    \cup {request_of("put_role", username, "", roles) : username \in Usernames, roles \in RoleSets}
    \cup {request_of(op, "", name, {}) : op \in {"role_put", "role_delete", "put_default"}, name \in RoleNames}

\* a handler starts: the code up to its first await
RbacRequest(h, request) ==
    /\ rbac_req[h].pc = "idle"
    /\ rbac_served < MaxRequests
    /\ rbac_served' = rbac_served + 1
    /\ rbac_req' = [rbac_req EXCEPT ![h] =
            CASE request.op = "delete_user" -> [request EXCEPT !.pc = "lock"]
              [] request.op = "put_role" ->
                    IF Users_contains(rbac_map, request.username)
                    THEN [request EXCEPT !.pc = "get_metadata"]
                    ELSE returned(request, "UserDoesNotExist")
              [] OTHER -> [request EXCEPT !.pc = "get_metadata"]]
    /\ UNCHANGED <<rbac_map, metadata, catalog_vars, alert_vars, http_vars>>

\* role delete without its check of the users
role_delete_unchecked(req, meta) ==
    [req EXCEPT !.pc = "put", !.metadata = [meta EXCEPT !.roles[req.name] = None]]

\* role delete: a role that a user of the metadata holds is not removed
role_delete_after_get(req, meta) ==
    IF role_in_use(meta, req.name) THEN returned(req, "RoleInUse")
    ELSE [req EXCEPT !.pc = "put", !.metadata = [meta EXCEPT !.roles[req.name] = None]]

\* get_metadata().await? and the code up to the next await
after_get_metadata(req, meta) ==
    CASE req.op = "post_user" ->
            IF req.roles = {} THEN returned(req, "RoleValidationError")
            ELSE [req EXCEPT !.pc = "lock", !.metadata = meta]
      [] req.op = "post_gen_password" -> [req EXCEPT !.pc = "lock", !.metadata = meta]
      [] req.op = "delete_user" ->
            [req EXCEPT !.pc = "put", !.metadata = retain_users(meta, req.username)]
      [] req.op = "put_role" ->
            IF has_user(meta, req.username)
            THEN [req EXCEPT !.pc = "put", !.metadata = set_roles(meta, req.username, req.roles)]
            ELSE returned(req, "UserDoesNotExist")
      [] req.op = "role_put" ->
            [req EXCEPT !.pc = "put",
                        !.metadata = [meta EXCEPT !.roles[req.name] = Some(Privileges)]]
      [] req.op = "role_delete" -> role_delete_after_get(req, meta)
      [] req.op = "put_default" ->
            [req EXCEPT !.pc = "put", !.metadata = [meta EXCEPT !.default_role = Some(req.name)]]

\* put_default stores the name in DEFAULT_ROLE before it calls put_metadata
default_role_after_get(map, req) ==
    IF req.op = "put_default" THEN [map EXCEPT !.default_role = Some(req.name)] ELSE map

RbacGetMetadata(h) ==
    /\ rbac_req[h].pc = "get_metadata"
    /\ \E storage_ok \in BOOLEAN :
          IF storage_ok
          THEN /\ rbac_req' = [rbac_req EXCEPT ![h] = after_get_metadata(@, metadata)]
               /\ rbac_map' = default_role_after_get(rbac_map, rbac_req[h])
          ELSE /\ rbac_req' = [rbac_req EXCEPT ![h] = returned(@, "ObjectStorageError")]
               /\ UNCHANGED rbac_map
    /\ UNCHANGED <<metadata, rbac_served, catalog_vars, alert_vars, http_vars>>

\* post_user looking for the username in the user map only
post_user_checking_map_only(req, map) ==
    IF Users_contains(map, req.username)
    THEN returned(req, "UserExists")
    ELSE [req EXCEPT !.pc = "put", !.hash = new_basic_hash,
                     !.metadata = push_user(@, user_of(req.username, {}, new_basic_hash))]

\* post_user: a username of the user map or of the metadata is refused
post_user_after_lock(req, map) ==
    IF Users_contains(map, req.username) \/ has_user(req.metadata, req.username)
    THEN returned(req, "UserExists")
    ELSE [req EXCEPT !.pc = "put", !.hash = new_basic_hash,
                     !.metadata = push_user(@, user_of(req.username, {}, new_basic_hash))]

\* the code between the lock statement and the next await
after_lock(req, map) ==
    CASE req.op = "post_user" -> post_user_after_lock(req, map)
      [] req.op = "post_gen_password" ->
            IF has_user(req.metadata, req.username)
            THEN [req EXCEPT !.pc = "put", !.hash = gen_new_password_hash,
                             !.metadata = set_password_hash(@, req.username, gen_new_password_hash)]
            ELSE returned(req, "UserDoesNotExist")
      [] req.op = "delete_user" ->
            IF Users_contains(map, req.username)
            THEN [req EXCEPT !.pc = "get_metadata"]
            ELSE returned(req, "UserDoesNotExist")

\* UPDATE_LOCK.lock().await: the handler waits until the mutex is free
RbacLock(h) ==
    /\ rbac_req[h].pc = "lock"
    /\ ~rbac_map.UPDATE_LOCK.some
    /\ rbac_req' = [rbac_req EXCEPT ![h] = after_lock(@, rbac_map)]
    /\ rbac_map' = [rbac_map EXCEPT !.UPDATE_LOCK = lock_after_let(h)]
    /\ UNCHANGED <<metadata, rbac_served, catalog_vars, alert_vars, http_vars>>

\* put_metadata(&metadata).await?
after_put_metadata(req, storage_ok) ==
    IF ~storage_ok THEN returned(req, "ObjectStorageError")
    ELSE IF req.op = "put_default" THEN returned(req, "Ok")
    ELSE [req EXCEPT !.pc = "mem"]

RbacPutMetadata(h) ==
    /\ rbac_req[h].pc = "put"
    /\ \E storage_ok \in BOOLEAN :
          /\ rbac_req' = [rbac_req EXCEPT ![h] = after_put_metadata(@, storage_ok)]
          /\ metadata' = IF storage_ok THEN rbac_req[h].metadata ELSE metadata
    /\ UNCHANGED <<rbac_map, rbac_served, catalog_vars, alert_vars, http_vars>>

\* the update of the in-memory table that follows the write
update_map(map, req) ==
    CASE req.op = "post_user" -> Users_put_user(map, user_of(req.username, {}, req.hash))
      [] req.op = "post_gen_password" -> Users_change_password_hash(map, req.username, req.hash)
      [] req.op = "delete_user" -> Users_delete_user(map, req.username)
      [] req.op = "put_role" -> Users_put_role(map, req.username, req.roles)
      [] req.op = "role_put" -> [map EXCEPT !.roles[req.name] = Some(Privileges)]
      [] req.op = "role_delete" -> [map EXCEPT !.roles[req.name] = None]

\* post_user goes on into put_role, whose check of the user map passes at once
after_update_map(req) ==
    IF req.op = "post_user"
    THEN [req EXCEPT !.pc = "get_metadata", !.op = "put_role", !.outer = "post_user"]
    ELSE returned(req, "Ok")

RbacUpdateMap(h) ==
    /\ rbac_req[h].pc = "mem"
    /\ rbac_map' = update_map(rbac_map, rbac_req[h])
    /\ rbac_req' = [rbac_req EXCEPT ![h] = after_update_map(@)]
    /\ UNCHANGED <<metadata, rbac_served, catalog_vars, alert_vars, http_vars>>

\* the response is sent and the handler is free for the next request
RbacReturn(h) ==
    /\ rbac_req[h].pc = "returned"
    /\ rbac_req' = [rbac_req EXCEPT ![h] = IdleHandler]
    /\ UNCHANGED <<rbac_map, metadata, rbac_served, catalog_vars, alert_vars, http_vars>>

\* the server starts with users and roles that the metadata and the tables agree on
users_seq(names) ==
    IF names = {} THEN <<>>
    ELSE IF names = Usernames THEN <<user_of("u1", RoleNames, new_basic_hash), user_of("u2", RoleNames, new_basic_hash)>>
    ELSE <<user_of(CHOOSE n \in names : TRUE, RoleNames, new_basic_hash)>>

InitRbac ==
    /\ CatalogAtRest
    /\ HttpAtRest
    /\ AlertsAtRest
    /\ rbac_req = [h \in Handlers |-> IdleHandler]
    /\ rbac_served = 0
    /\ \E names \in SUBSET Usernames, has_roles \in BOOLEAN :
          /\ names /= {} => has_roles
          /\ metadata = [users |-> users_seq(names),
                         roles |-> [name \in RoleNames |-> IF has_roles THEN Some(Privileges) ELSE None],
                         default_role |-> None]
          /\ rbac_map = [users |-> [username \in Usernames |->
                                       IF username \in names
                                       THEN Some([roles |-> RoleNames, password_hash |-> new_basic_hash])
                                       ELSE None],
                         roles |-> [name \in RoleNames |-> IF has_roles THEN Some(Privileges) ELSE None],
                         default_role |-> None, UPDATE_LOCK |-> None]

NextRbac ==
    \/ \E h \in Handlers, request \in RbacRequests : RbacRequest(h, request)
    \/ \E h \in Handlers : RbacGetMetadata(h)
    \/ \E h \in Handlers : RbacLock(h)
    \/ \E h \in Handlers : RbacPutMetadata(h)
    \/ \E h \in Handlers : RbacUpdateMap(h)
    \/ \E h \in Handlers : RbacReturn(h)

SpecRbac == InitRbac /\ [][NextRbac]_vars

----------------------------------------------------------------------------
(* Users and roles: what the handlers guarantee *)

\* a handler that has passed its lock statement and has not yet finished
\* its update of the storage metadata and of the user map
in_critical(req) ==
    \/ req.op \in locking /\ req.pc \in {"put", "mem"}
    \/ req.op = "delete_user" /\ req.pc = "get_metadata"
    \/ req.outer \in locking /\ req.pc \in {"get_metadata", "put", "mem"}

\* C19: the critical sections of post_user, post_gen_password and delete_user
\* that follow the acquisition of UPDATE_LOCK are mutually exclusive: no two
\* handlers are at once between the lock statement and the end of their update
C19_CriticalSectionsExclusive ==
    \A h1 \in Handlers, h2 \in Handlers :
        h1 /= h2 => ~(in_critical(rbac_req[h1]) /\ in_critical(rbac_req[h2]))

\* C20: every user and role mutation writes the persisted metadata first: a
\* step changes the in-memory users, roles or default role only when it is the
\* step of a handler whose put_metadata has succeeded
C20_PersistedBeforeMemory ==
    [][(rbac_map'.users /= rbac_map.users \/ rbac_map'.roles /= rbac_map.roles
            \/ rbac_map'.default_role /= rbac_map.default_role)
        => \E h \in Handlers : rbac_req[h].pc = "mem" /\ rbac_req'[h] /= rbac_req[h]]_vars

\* the step is one of handler h
acts(h) == rbac_req'[h] /= rbac_req[h]

\* C21: deleting a role that a user of the metadata holds fails with RoleInUse
\* and changes neither the persisted roles nor the in-memory role map; the
\* handler removes the role from the metadata and from the map only when no
\* user of the metadata it read holds the role
C21_RoleInUseKept ==
    [][\A h \in Handlers :
          (rbac_req[h].op = "role_delete" /\ acts(h)) =>
             /\ (rbac_req[h].pc = "get_metadata" /\ role_in_use(metadata, rbac_req[h].name)) =>
                   /\ rbac_req'[h].pc = "returned"
                   /\ rbac_req'[h].response \in {"RoleInUse", "ObjectStorageError"}
                   /\ metadata' = metadata
                   /\ rbac_map' = rbac_map
             /\ (rbac_req[h].pc = "put" /\ rbac_req'[h].pc = "mem") =>
                   /\ ~metadata'.roles[rbac_req[h].name].some
                   /\ ~role_in_use(metadata', rbac_req[h].name)
             /\ rbac_req[h].pc = "mem" =>
                   /\ ~rbac_map'.roles[rbac_req[h].name].some
                   /\ ~role_in_use(rbac_req[h].metadata, rbac_req[h].name)]_vars

\* a role delete was refused for a role in use, which is still there
C21_Witness ==
    \E h1 \in Handlers :
        /\ rbac_req[h1].pc = "returned" /\ rbac_req[h1].op = "role_delete"
        /\ rbac_req[h1].response = "RoleInUse"
        /\ rbac_map.roles[rbac_req[h1].name].some
        /\ metadata.roles[rbac_req[h1].name].some
        /\ role_in_use(metadata, rbac_req[h1].name)

\* a role delete went through
C21_WitnessRemoved ==
    \E h \in Handlers :
        /\ rbac_req[h].pc = "returned" /\ rbac_req[h].op = "role_delete"
        /\ rbac_req[h].response = "Ok"
        /\ ~rbac_map.roles[rbac_req[h].name].some

C22_WitnessRoles ==
    \E h \in Handlers :
        /\ rbac_req[h].pc = "returned" /\ rbac_req[h].op = "post_user"
        /\ rbac_req[h].response = "RoleValidationError"

----------------------------------------------------------------------------
(* get_stats: the statistics of one stream *)

\* a query string is a sequence of pieces: words and the '=' sign
QueryPieces == {"date", "d1", "="}
QueryStrings == SeqsUpTo(QueryPieces, MaxQueryLen)
Modes == {"All", "Ingest", "Query"}

\* query_string.split('='): the parts between the '=' signs
RECURSIVE split(_)
split(str) ==
    IF str = <<>> THEN << <<>> >>
    ELSE LET rest == split(Tail(str))
         IN  IF Head(str) = "=" THEN << <<>> >> \o rest
             ELSE << <<Head(str)>> \o rest[1] >> \o Tail(rest)

\* metadata::STREAM_INFO.stream_exists(&stream_name)
stream_exists(registry, stream_name) == stream_name \in registry

\* StreamError::status_code
status_code(response) ==
    CASE response = "StreamNotFound" -> 404
      [] response = "Custom" -> 400
      [] response = "Network" -> 500
      [] response = "Ok" -> 200
      [] OTHER -> 0

stats_returned(req, response) == [req EXCEPT !.pc = "returned", !.response = response]

\* from stats::get_current_stats to the call of the ingestors
current_stats(req, mode, has_stats, user_defined) ==
    IF ~has_stats
    THEN stats_returned([req EXCEPT !.touched = @ \cup {"current_stats"}], "StreamNotFound")
    ELSE IF mode = "Query" /\ user_defined
    THEN [req EXCEPT !.pc = "ingestors", !.touched = @ \cup {"current_stats", "ingestors"}]
    ELSE [req EXCEPT !.pc = "stream_meta", !.touched = @ \cup {"current_stats"}]

\* get_stats for a stream of the registry, up to its first await: the query
\* string is taken apart, its second part read without a look at the length
get_stats_known(req, mode, has_stats, user_defined) ==
    LET parts == split(req.query_string) IN
    IF req.query_string /= <<>>
    THEN IF Len(parts) < 2 THEN stats_returned(req, "panic")
         ELSE IF parts[1] /= <<"date">> THEN stats_returned(req, "Custom")
         ELSE IF parts[2] /= <<>>
         THEN IF mode = "Query"
              THEN [req EXCEPT !.pc = "ingestors", !.dated = TRUE,
                               !.touched = {"stats_date", "ingestors"}]
              ELSE stats_returned([req EXCEPT !.dated = TRUE, !.touched = {"stats_date"}], "Ok")
         ELSE current_stats(req, mode, has_stats, user_defined)
    ELSE current_stats(req, mode, has_stats, user_defined)

\* get_stats without its look at the registry
get_stats_unchecked(req, registry, mode, has_stats, user_defined) ==
    get_stats_known(req, mode, has_stats, user_defined)

\* get_stats up to its first await
get_stats(req, registry, mode, has_stats, user_defined) ==
    IF ~stream_exists(registry, req.stream_name)
    THEN stats_returned(req, "StreamNotFound")
    ELSE get_stats_known(req, mode, has_stats, user_defined)

GetStats(stream_name, query_string) ==
    /\ stats_req.pc = "idle"
    /\ \E has_stats \in BOOLEAN, user_defined \in BOOLEAN :
          stats_req' = get_stats([IdleStats EXCEPT !.pc = "start", !.stream_name = stream_name,
                                                   !.query_string = query_string],
                                 stream_info, server_mode, has_stats, user_defined)
    /\ UNCHANGED <<server_mode, beside_stats>>

\* the ingestors answer, or the call fails
GetStatsIngestors ==
    /\ stats_req.pc = "ingestors"
    /\ \E fetched \in BOOLEAN :
          stats_req' = IF ~fetched THEN stats_returned(stats_req, "Network")
                       ELSE IF stats_req.dated THEN stats_returned(stats_req, "Ok")
                       ELSE [stats_req EXCEPT !.pc = "stream_meta"]
    /\ UNCHANGED <<server_mode, beside_stats>>

\* STREAM_INFO is read again for first_event_at before the answer is built
GetStatsStreamMeta ==
    /\ stats_req.pc = "stream_meta"
    /\ stats_req' = IF stats_req.stream_name \in stream_info
                    THEN stats_returned(stats_req, "Ok")
                    ELSE stats_returned(stats_req, "StreamNotFound")
    /\ UNCHANGED <<server_mode, beside_stats>>

GetStatsReturn ==
    /\ stats_req.pc = "returned"
    /\ stats_req' = IdleStats
    /\ UNCHANGED <<server_mode, beside_stats>>

InitStats ==
    /\ CatalogAtRest
    /\ AlertsAtRest
    /\ RbacAtRest
    /\ PutStreamAtRest
    /\ InitializeAtRest
    /\ FlagsAtRest
    /\ RoutingAtRest
    /\ ShutdownAtRest
    /\ DeleteAtRest
    /\ CorrelationsAtRest
    /\ server_mode \in Modes
    /\ stats_req = IdleStats

NextStats ==
    \/ \E stream_name \in StreamNames, query_string \in QueryStrings :
          GetStats(stream_name, query_string)
    \/ GetStatsIngestors
    \/ GetStatsStreamMeta
    \/ GetStatsReturn

SpecStats == InitStats /\ [][NextStats]_vars

\* C23: for a stream name that is not in the stream registry get_stats
\* returns StreamNotFound (404) whatever the query string, and has neither
\* read statistics nor called the ingestors
C23_UnknownStreamNotFound ==
    (stats_req.pc /= "idle" /\ ~stream_exists(stream_info, stats_req.stream_name)) =>
        /\ stats_req.pc = "returned"
        /\ stats_req.response = "StreamNotFound"
        /\ status_code(stats_req.response) = 404
        /\ stats_req.touched = {}

\* an unknown stream asked with a query string whose second part is missing
C23_Witness ==
    /\ stats_req.pc = "returned"
    /\ ~stream_exists(stream_info, stats_req.stream_name)
    /\ stats_req.query_string = <<"date">>
    /\ stats_req.response = "StreamNotFound"

----------------------------------------------------------------------------
(* QueryRouting: which query node answers the next query *)

\* the ids of the other query nodes, and the id of this node (QUERIER_META)
QuerierIds == 1..MaxQueriers
SelfId == 0

\* QueryRouting::new: the stored metas other than this node's that are live
new(stored, live) ==
    LET nodes == (stored \ {SelfId}) \cap live
    IN  [available_nodes |-> nodes, stats |-> nodes, info |-> nodes]

\* drain().next().unwrap(), the rest put back, then info.get(&node_id).unwrap():
\* one result for each node the drain may yield first
drain_one(self, rebuilt) ==
    {[routing |-> [self EXCEPT !.available_nodes = @ \ {node_id}],
      outcome |-> IF node_id \in self.info THEN Some(node_id) ELSE None,
      panicked |-> node_id \notin self.info, read_failed |-> FALSE, rebuilt |-> rebuilt]
        : node_id \in self.available_nodes}

\* QueryRouting::get_query_node: every result it can have
get_query_node(self, stored, live, storage_ok) ==
    IF self.available_nodes /= {} THEN drain_one(self, None)
    ELSE IF self.info /= {}
    THEN {[routing |-> self, outcome |-> Some(node_id), panicked |-> FALSE,
           read_failed |-> FALSE, rebuilt |-> None]
            : node_id \in self.info}
    ELSE IF ~storage_ok
    THEN {[routing |-> self, outcome |-> None, panicked |-> TRUE, read_failed |-> TRUE,
           rebuilt |-> None]}
    ELSE LET again == new(stored, live)
         IN  IF again.available_nodes /= {} THEN drain_one(again, Some(again.available_nodes))
             ELSE {[routing |-> again, outcome |-> Some(SelfId), panicked |-> FALSE,
                    read_failed |-> FALSE, rebuilt |-> Some({})]}

\* QueryRouting::append_querier_info
append_querier_info(self, node) ==
    [self EXCEPT !.info = @ \cup {node}, !.available_nodes = @ \cup {node}]

\* QueryRouting::reinstate_node
reinstate_node(self, node) == [self EXCEPT !.available_nodes = @ \cup {node}]

\* QueryRouting::check_liveness: the nodes of info that do not answer are removed
check_liveness(self, live) ==
    LET to_remove == self.info \ live
    IN  [available_nodes |-> self.available_nodes \ to_remove,
         stats |-> self.stats \ to_remove,
         info |-> self.info \ to_remove]

GetQueryNode ==
    /\ \E storage_ok \in BOOLEAN, live \in SUBSET QuerierIds :
          \E r \in get_query_node(routing, querier_store, live, storage_ok) :
              /\ routing' = r.routing
              /\ routed' = [called |-> TRUE, flip |-> ~routed.flip, outcome |-> r.outcome,
                            panicked |-> r.panicked, read_failed |-> r.read_failed,
                            rebuilt |-> r.rebuilt,
                            lent |-> IF r.outcome.some THEN routed.lent \cup {r.outcome.val}
                                     ELSE routed.lent]
    /\ UNCHANGED <<querier_store, beside_routing>>

\* a query node announces itself to this node
AppendQuerierInfo(node) ==
    /\ routing' = append_querier_info(routing, node)
    /\ routing' /= routing
    /\ UNCHANGED <<querier_store, routed, beside_routing>>

\* the node that answered a query is handed back
ReinstateNode(node) ==
    /\ node \in routed.lent
    /\ routing' = reinstate_node(routing, node)
    /\ routed' = [routed EXCEPT !.lent = @ \ {node}]
    /\ UNCHANGED <<querier_store, beside_routing>>

CheckLiveness ==
    /\ \E live \in SUBSET QuerierIds : routing' = check_liveness(routing, live)
    /\ routing' /= routing
    /\ UNCHANGED <<querier_store, routed, beside_routing>>

\* a query node starts and writes its metadata to storage
StoreQuerier(node) ==
    /\ node \notin querier_store
    /\ querier_store' = querier_store \cup {node}
    /\ UNCHANGED <<routing, routed, beside_routing>>

InitRouting ==
    /\ CatalogAtRest
    /\ AlertsAtRest
    /\ RbacAtRest
    /\ PutStreamAtRest
    /\ InitializeAtRest
    /\ FlagsAtRest
    /\ StatsAtRest
    /\ RoutingAtRest
    /\ ShutdownAtRest
    /\ DeleteAtRest
    /\ CorrelationsAtRest

NextRouting ==
    \/ GetQueryNode
    \/ \E node \in QuerierIds : AppendQuerierInfo(node)
    \/ \E node \in QuerierIds \cup {SelfId} : ReinstateNode(node)
    \/ CheckLiveness
    \/ \E node \in QuerierIds \cup {SelfId} : StoreQuerier(node)

SpecRouting == InitRouting /\ [][NextRouting]_vars

\* C24: with available nodes get_query_node returns one of them and removes it
\* from available_nodes; with none but a non-empty info it returns a node of
\* info and leaves the routing state as it is; with both empty it rebuilds the
\* state from storage and returns an available node when there is one,
\* and this node's own metadata only when there is none (a rebuild that
\* cannot read the storage aside)
C24_QueryNodeChosen ==
    [][(routed'.flip /= routed.flip /\ ~routed'.read_failed) =>
        /\ ~routed'.panicked
        /\ routed'.outcome.some
        /\ LET node == routed'.outcome.val IN
           IF routing.available_nodes /= {}
           THEN /\ node \in routing.available_nodes
                /\ routing' = [routing EXCEPT !.available_nodes = @ \ {node}]
           ELSE IF routing.info /= {}
           THEN node \in routing.info /\ routing' = routing
           ELSE /\ routed'.rebuilt.some
                /\ IF routed'.rebuilt.val /= {}
                   THEN /\ node \in routed'.rebuilt.val
                        /\ routing'.available_nodes = routed'.rebuilt.val \ {node}
                   ELSE node = SelfId /\ routing'.available_nodes = {}]_vars

----------------------------------------------------------------------------
(* Shutdown: the flag and the middleware that reads it *)

\* check_shutdown_middleware with the flag read the other way round
check_shutdown_inverted(flag) == IF flag THEN "forwarded" ELSE "503"

\* check_shutdown_middleware: 503 when the flag is set, else next.call(req)
check_shutdown_middleware(flag) == IF flag THEN "503" ELSE "forwarded"

\* a request reaches the middleware, which waits for the mutex of the flag
MwArrive(r) ==
    /\ mw_req[r].pc = "idle"
    /\ mw_req' = [mw_req EXCEPT ![r] = [pc |-> "lock", outcome |-> "none"]]
    /\ UNCHANGED <<signal_received, shutdown_pc, beside_shutdown>>

\* the middleware gets the mutex, reads the flag and lets the mutex go
MwLock(r) ==
    /\ mw_req[r].pc = "lock"
    /\ signal_received.holder = "none"
    /\ mw_req' = [mw_req EXCEPT ![r] =
            IF check_shutdown_middleware(signal_received.value) = "503"
            THEN [pc |-> "answered", outcome |-> "503"]
            ELSE [pc |-> "forwarded", outcome |-> "none"]]
    /\ UNCHANGED <<signal_received, shutdown_pc, beside_shutdown>>

\* the next handler answers a request that was forwarded
MwNext(r) ==
    /\ mw_req[r].pc = "forwarded"
    /\ mw_req' = [mw_req EXCEPT ![r] = [pc |-> "answered", outcome |-> "handled"]]
    /\ UNCHANGED <<signal_received, shutdown_pc, beside_shutdown>>

MwReturn(r) ==
    /\ mw_req[r].pc = "answered"
    /\ mw_req' = [mw_req EXCEPT ![r] = IdleRequest]
    /\ UNCHANGED <<signal_received, shutdown_pc, beside_shutdown>>

\* shutdown(): the mutex is taken and the flag set; the guard is a named
\* variable of the function, so the mutex is held until shutdown() returns
ShutdownSetFlag ==
    /\ shutdown_pc = "idle"
    /\ signal_received.holder = "none"
    /\ signal_received' = [value |-> TRUE, holder |-> "shutdown"]
    /\ shutdown_pc' = "flush"
    /\ UNCHANGED <<mw_req, beside_shutdown>>

\* the staging files are converted: the join set is waited for
ShutdownFlush ==
    /\ shutdown_pc = "flush"
    /\ shutdown_pc' = "upload"
    /\ UNCHANGED <<signal_received, mw_req, beside_shutdown>>

\* upload_files_from_staging, whose failure is only logged; shutdown() returns
ShutdownUpload ==
    /\ shutdown_pc = "upload"
    /\ shutdown_pc' = "done"
    /\ signal_received' = [signal_received EXCEPT !.holder = "none"]
    /\ UNCHANGED <<mw_req, beside_shutdown>>

InitShutdown ==
    /\ CatalogAtRest
    /\ AlertsAtRest
    /\ RbacAtRest
    /\ HttpAtRest

NextShutdown ==
    \/ \E r \in RequestIds : MwArrive(r)
    \/ \E r \in RequestIds : MwLock(r)
    \/ \E r \in RequestIds : MwNext(r)
    \/ \E r \in RequestIds : MwReturn(r)
    \/ ShutdownSetFlag
    \/ ShutdownFlush
    \/ ShutdownUpload

SpecShutdown == InitShutdown /\ [][NextShutdown]_vars

\* C25: once shutdown() has set the flag the flag stays set, and every
\* request that passes the middleware's read of the flag afterwards is
\* answered 503 and not forwarded to the next handler
C25_RejectedAfterShutdown ==
    [][/\ signal_received.value => signal_received'.value
       /\ \A r \in RequestIds :
             (signal_received.value /\ mw_req[r].pc = "lock" /\ mw_req'[r].pc /= "lock") =>
                 mw_req'[r] = [pc |-> "answered", outcome |-> "503"]]_vars

\* a request that reached the middleware while shutdown() was at work has
\* been answered 503 after shutdown() returned
C25_Witness ==
    /\ shutdown_pc = "done"
    /\ signal_received.value
    /\ \E r \in RequestIds : mw_req[r] = [pc |-> "answered", outcome |-> "503"]

----------------------------------------------------------------------------
(* Deleting a stream: the objects under its prefix, then the registry *)

\* the handler up to delete_stream: an unknown stream is refused; an ingest
\* node deletes nothing in the storage
delete_start(req, registry, mode, objects) ==
    IF ~stream_exists(registry, req.stream_name)
    THEN [req EXCEPT !.pc = "returned", !.response = "StreamNotFound"]
    ELSE IF mode \in {"Query", "All"}
    THEN [req EXCEPT !.pc = "delete_prefix", !.listed = objects]
    ELSE [req EXCEPT !.pc = "registry"]

\* what _delete_prefix returns: a failed deletion is logged, and after the
\* loop the function ends with Ok(())
prefix_result_of(failed) == "Ok"

\* objectstore.delete_stream(&stream_name).await?
after_delete_stream(req, result) ==
    IF result = "Ok"
    THEN [req EXCEPT !.pc = "ingestors", !.prefix_result = result]
    ELSE [req EXCEPT !.pc = "returned", !.prefix_result = result, !.response = "Storage"]

DeleteStream(stream_name) ==
    /\ del_req.pc = "idle"
    /\ del_req' = delete_start([IdleDelete EXCEPT !.stream_name = stream_name],
                               stream_info, server_mode, s3_objects)
    /\ UNCHANGED <<s3_objects, stream_info, beside_delete>>

\* one object of the listing: client.delete succeeds or fails
DeletePrefixObject(key) ==
    /\ del_req.pc = "delete_prefix"
    /\ key \in del_req.listed
    /\ \E deleted \in BOOLEAN :
          /\ s3_objects' = IF deleted THEN s3_objects \ {key} ELSE s3_objects
          /\ del_req' = [del_req EXCEPT !.listed = @ \ {key},
                                        !.failed = @ \/ ~deleted]
    /\ UNCHANGED <<stream_info, beside_delete>>

\* the listing is exhausted: _delete_prefix and delete_stream return
DeletePrefixDone ==
    /\ del_req.pc = "delete_prefix"
    /\ del_req.listed = {}
    /\ del_req' = after_delete_stream(del_req, prefix_result_of(del_req.failed))
    /\ UNCHANGED <<s3_objects, stream_info, beside_delete>>

\* the ingestors are told to delete the stream, which can fail
DeleteIngestors ==
    /\ del_req.pc = "ingestors"
    /\ \E told \in BOOLEAN :
          del_req' = IF told THEN [del_req EXCEPT !.pc = "registry"]
                     ELSE [del_req EXCEPT !.pc = "returned", !.response = "Network"]
    /\ UNCHANGED <<s3_objects, stream_info, beside_delete>>

\* the stream leaves the registry and the handler reports it as deleted
DeleteRegistry ==
    /\ del_req.pc = "registry"
    /\ stream_info' = stream_info \ {del_req.stream_name}
    /\ del_req' = [del_req EXCEPT !.pc = "returned", !.response = "deleted"]
    /\ UNCHANGED <<s3_objects, beside_delete>>

DeleteReturn ==
    /\ del_req.pc = "returned"
    /\ del_req' = IdleDelete
    /\ UNCHANGED <<s3_objects, stream_info, beside_delete>>

InitDelete ==
    /\ CatalogAtRest
    /\ AlertsAtRest
    /\ RbacAtRest
    /\ PutStreamAtRest
    /\ InitializeAtRest
    /\ FlagsAtRest
    /\ RoutingAtRest
    /\ ShutdownAtRest
    /\ CorrelationsAtRest
    /\ stats_req = IdleStats
    /\ server_mode \in Modes
    /\ s3_objects \in SUBSET ObjectKeys
    /\ del_req = IdleDelete

NextDelete ==
    \/ \E stream_name \in StreamNames : DeleteStream(stream_name)
    \/ \E key \in ObjectKeys : DeletePrefixObject(key)
    \/ DeletePrefixDone
    \/ DeleteIngestors
    \/ DeleteRegistry
    \/ DeleteReturn

SpecDelete == InitDelete /\ [][NextDelete]_vars

\* C26: when the deletion of an object under the prefix of the stream has
\* failed, delete_stream returns an error and the handler does not report
\* the stream as deleted
C26_DeleteFailureSurfaced ==
    (del_req.failed /\ del_req.prefix_result /= "none") =>
        /\ del_req.prefix_result = "Err"
        /\ del_req.response /= "deleted"

----------------------------------------------------------------------------
(* Concurrent calls of update_state *)

\* the task is inside a call of update_state
in_update_state(t) == alert_tasks[t].pc \in {"get", "put", "mem", "notify"}

\* C27: whatever the interleaving of the update_state calls (and of the
\* updates of the map) on an alert, once every call has returned the state of
\* the alert in the metastore is the state of the alert in the map
C27_StoreEqualsMemory ==
    (\A t \in TaskIds : ~in_update_state(t)) =>
        \A id \in AlertIds :
            (alerts[id].some /\ alert_store[id].some) =>
                alerts[id].val.state = alert_store[id].val.state

----------------------------------------------------------------------------
(* Correlations: the list in memory, updated and deleted from at once *)

Queries == {"q1", "q2"}
correlation_of(id, query) == [id |-> id, query |-> query]

\* Correlation::update: s.retain(|c| c.id != correlation.id); s.push(correlation)
correlation_update(list, correlation) ==
    Append(SelectSeq(list, LAMBDA c : c.id /= correlation.id), correlation)

\* iter().enumerate().find(|(_, c)| c.id == correlation_id): the position of
\* the first correlation of the id, counted from 1, or 0
find_index(list, correlation_id) ==
    LET found == {i \in 1..Len(list) : list[i].id = correlation_id}
    IN  IF found = {} THEN 0 ELSE SetMin(found)

\* Vec::remove(index): the list without the element at the position
remove_at(list, index) ==
    [i \in 1..(Len(list) - 1) |-> IF i < index THEN list[i] ELSE list[i + 1]]

\* the calls in progress, with the ones on the correlation that another call
\* of the id is changing marked (same_id is history, kept for the properties)
marking(req, by, id) ==
    [c \in Callers |->
        IF c /= by /\ req[c].pc = "remove" /\ req[c].id = id
        THEN [req[c] EXCEPT !.same_id = TRUE] ELSE req[c]]

CorrUpdate(c, correlation) ==
    /\ corr_req[c].pc = "idle"
    /\ correlations' = correlation_update(correlations, correlation)
    /\ corr_req' = [marking(corr_req, c, correlation.id) EXCEPT ![c] =
           [IdleCaller EXCEPT !.pc = "returned", !.op = "update", !.id = correlation.id]]
    /\ UNCHANGED beside_corr

\* delete under the read lock: the position of the correlation is looked up
\* and the read lock dropped
CorrDeleteFind(c, correlation_id) ==
    /\ corr_req[c].pc = "idle"
    /\ corr_req' = [corr_req EXCEPT ![c] =
           LET index == find_index(correlations, correlation_id)
           IN  [IdleCaller EXCEPT !.pc = IF index = 0 THEN "returned" ELSE "remove",
                                  !.op = "delete", !.id = correlation_id, !.index = index]]
    /\ UNCHANGED <<correlations, beside_corr>>

\* delete under the write lock: remove(index), which panics past the end
CorrDeleteRemove(c) ==
    /\ corr_req[c].pc = "remove"
    /\ LET index == corr_req[c].index IN
       IF index > Len(correlations)
       THEN /\ corr_req' = [corr_req EXCEPT ![c] = [@ EXCEPT !.pc = "returned", !.panicked = TRUE]]
            /\ UNCHANGED correlations
       ELSE /\ corr_req' = [marking(corr_req, c, corr_req[c].id) EXCEPT ![c] =
                   [@ EXCEPT !.pc = "returned", !.removed = Some(correlations[index].id)]]
            /\ correlations' = remove_at(correlations, index)
    /\ UNCHANGED beside_corr

CorrReturn(c) ==
    /\ corr_req[c].pc = "returned"
    /\ corr_req' = [corr_req EXCEPT ![c] = IdleCaller]
    /\ UNCHANGED <<correlations, beside_corr>>

\* the lists that load() can leave: correlations of distinct ids
LoadedLists ==
    {list \in SeqsUpTo({correlation_of(id, "q1") : id \in CorrelationIds}, MaxCorrelations) :
        \A i \in 1..Len(list), j \in 1..Len(list) : i /= j => list[i].id /= list[j].id}

InitCorrelations ==
    /\ CatalogAtRest
    /\ AlertsAtRest
    /\ RbacAtRest
    /\ PutStreamAtRest
    /\ InitializeAtRest
    /\ FlagsAtRest
    /\ StatsAtRest
    /\ RoutingAtRest
    /\ ShutdownAtRest
    /\ DeleteAtRest
    /\ correlations \in LoadedLists
    /\ corr_req = [c \in Callers |-> IdleCaller]

NextCorrelations ==
    \/ \E c \in Callers, id \in CorrelationIds, query \in Queries :
          CorrUpdate(c, correlation_of(id, query))
    \/ \E c \in Callers, id \in CorrelationIds : CorrDeleteFind(c, id)
    \/ \E c \in Callers : CorrDeleteRemove(c)
    \/ \E c \in Callers : CorrReturn(c)

SpecCorrelations == InitCorrelations /\ [][NextCorrelations]_vars

\* C28: delete(id) removes from the list only the correlation of the given
\* id and never panics, whatever update and delete calls on other
\* correlations run at the same time
C28_DeleteOnlyGiven ==
    \A c \in Callers :
        corr_req[c].op = "delete" /\ ~corr_req[c].same_id =>
            /\ ~corr_req[c].panicked
            /\ corr_req[c].removed.some => corr_req[c].removed.val = corr_req[c].id

----------------------------------------------------------------------------
(* Two post_user requests at once *)

usernames_of(meta) == {meta.users[i].username : i \in 1..Len(meta.users)}
usernames_in(map) == {username \in Usernames : Users_contains(map, username)}

post_user_succeeded(h) ==
    /\ rbac_req[h].pc = "returned"
    /\ rbac_req[h].outer = "post_user"
    /\ rbac_req[h].response = "Ok"

\* C29: when two post_user requests for two distinct new usernames run at
\* once and both answer with success, the persisted metadata holds both
\* users and its usernames are the usernames of the user map in memory
C29_BothUsersPersisted ==
    \A h1 \in Handlers, h2 \in Handlers :
        /\ h1 /= h2
        /\ post_user_succeeded(h1)
        /\ post_user_succeeded(h2)
        /\ rbac_req[h1].username /= rbac_req[h2].username
        => /\ {rbac_req[h1].username, rbac_req[h2].username} \subseteq usernames_of(metadata)
           /\ usernames_of(metadata) = usernames_in(rbac_map)

----------------------------------------------------------------------------
(* No file of the range is left out *)

referenced_files == UNION {stored_files(rd.merged[i]) : i \in 1..Len(rd.merged)}

in_range(file) == file.upper >= rd.time_range.start /\ file.lower < rd.time_range.end

\* C30: the call leaves out no file of a manifest of the snapshot whose own
\* [lower, upper] bounds intersect the range [start, end): neither the
\* manifest pruning nor the file pruning nor the path-date filter drops it,
\* also when start lies inside the minute the path of the file names
C30_NoFileOfRangeOmitted ==
    rd.pc = "done" =>
        \A file \in referenced_files : in_range(file) => file \in returned_files

----------------------------------------------------------------------------
(* put_enable_cache and put_stream_hot_tier: the stream.json is read, one  *)
(* field is set and the whole object is written back                       *)

\* what the flag handlers leave alone beside the stream.json and the registry
beside_flag_handlers ==
    <<manifest_store, rd, ing, ret, alert_vars, rbac_vars, stats_vars, routing_vars,
      shutdown_vars, delete_vars, corr_vars, init_vars, put_vars, flag_config>>

flag_returned(req, response) ==
    [IdleFlagRequest EXCEPT !.pc = "returned", !.op = req.op,
                            !.stream_name = req.stream_name, !.response = response]

\* storage.list_streams(): the streams that have a stream.json in storage
listed_in_storage(stream_name) == stream_name = StreamName

\* put_enable_cache up to the read of the stream.json: the checks of the mode
put_enable_cache_start(mode, registry, config, stream_name, sync_ok) ==
    CASE mode = "Query" ->
            IF ~stream_exists(registry, stream_name) THEN "StreamNotFound"
            ELSE IF ~sync_ok THEN "Error" ELSE "go"
      [] mode = "Ingest" ->
            IF ~config.local_cache_path THEN "CacheNotEnabled"
            ELSE IF ~listed_in_storage(stream_name) THEN "StreamNotFound" ELSE "go"
      [] OTHER ->
            IF ~stream_exists(registry, stream_name) THEN "StreamNotFound"
            ELSE IF ~config.local_cache_path THEN "CacheNotEnabled" ELSE "go"

PutEnableCache(stream_name, enable) ==
    /\ flag_req.pc = "idle"
    /\ \E sync_ok \in BOOLEAN :
          LET outcome == put_enable_cache_start(server_mode, stream_info, flag_config,
                                                stream_name, sync_ok)
              req == [IdleFlagRequest EXCEPT !.op = "put_enable_cache",
                                             !.stream_name = stream_name, !.enable = enable]
          IN  /\ flag_req' = IF outcome = "go" THEN [req EXCEPT !.pc = "get"]
                             ELSE flag_returned(req, outcome)
              \* Mode::Ingest: upsert_stream_info registers the stream
              /\ stream_info' = IF outcome = "go" /\ server_mode = "Ingest"
                                THEN stream_info \cup {stream_name} ELSE stream_info
    /\ UNCHANGED <<stream_jsons, metas, stream_flags, info_flags, beside_flag_handlers>>

\* put_stream_hot_tier up to STREAM_INFO.set_hot_tier: the checks
put_stream_hot_tier_start(mode, registry, config, time_partition, stream_name, body_ok) ==
    IF mode /= "Query" THEN "BadRequest"
    ELSE IF ~stream_exists(registry, stream_name) THEN "StreamNotFound"
    ELSE IF ~config.hot_tier_storage_path THEN "HotTierNotEnabled"
    ELSE IF time_partition.some THEN "BadRequest"
    ELSE IF ~body_ok THEN "InvalidHotTierConfig"
    ELSE "go"

PutStreamHotTier(stream_name, body_ok) ==
    /\ flag_req.pc = "idle"
    /\ LET outcome == put_stream_hot_tier_start(server_mode, stream_info, flag_config,
                           metas[IngestNode].time_partition, stream_name, body_ok)
           req == [IdleFlagRequest EXCEPT !.op = "put_stream_hot_tier",
                                          !.stream_name = stream_name, !.enable = TRUE]
       IN  /\ flag_req' = IF outcome = "go" THEN [req EXCEPT !.pc = "hot_tier"]
                          ELSE flag_returned(req, outcome)
           /\ info_flags' = IF outcome = "go" THEN [info_flags EXCEPT !.hot_tier = TRUE]
                            ELSE info_flags
    /\ UNCHANGED <<stream_jsons, metas, stream_info, stream_flags, beside_flag_handlers>>

\* validate_hot_tier_size and put_hot_tier of the hot tier manager
PutHotTier ==
    /\ flag_req.pc = "hot_tier"
    /\ \E ok \in BOOLEAN :
          flag_req' = IF ok THEN [flag_req EXCEPT !.pc = "get"]
                      ELSE flag_returned(flag_req, "Error")
    /\ UNCHANGED <<stream_jsons, metas, stream_info, stream_flags, info_flags,
                   beside_flag_handlers>>

\* storage.get_object_store_format: the whole stream.json, snapshot included
FlagGetFormat ==
    /\ flag_req.pc = "get"
    /\ LET got == from_slice(stream_jsons[IngestNode])
       IN  flag_req' = IF got.ok
                       THEN [flag_req EXCEPT !.pc = "put", !.meta = got.val,
                                             !.flags = stream_flags]
                       ELSE flag_returned(flag_req, "Error")
    /\ UNCHANGED <<stream_jsons, metas, stream_info, stream_flags, info_flags,
                   beside_flag_handlers>>

\* the field the handler sets in the format it read
with_flag(req) ==
    IF req.op = "put_enable_cache"
    THEN [req.flags EXCEPT !.cache_enabled = req.enable]
    ELSE [req.flags EXCEPT !.hot_tier_enabled = Some(TRUE)]

\* storage.put_stream_manifest: the format read earlier overwrites the
\* stream.json; put_enable_cache then sets the flag in STREAM_INFO
FlagPutFormat ==
    /\ flag_req.pc = "put"
    /\ stream_jsons' = put_object(stream_jsons, IngestNode, to_bytes(flag_req.meta))
    /\ metas' = [metas EXCEPT ![IngestNode] = flag_req.meta]
    /\ stream_flags' = with_flag(flag_req)
    /\ info_flags' = IF flag_req.op = "put_enable_cache"
                     THEN [info_flags EXCEPT !.cache_enabled = flag_req.enable]
                     ELSE info_flags
    /\ flag_req' = flag_returned(flag_req, "OK")
    /\ UNCHANGED <<stream_info, beside_flag_handlers>>

FlagReturn ==
    /\ flag_req.pc = "returned"
    /\ flag_req' = IdleFlagRequest
    /\ UNCHANGED <<stream_jsons, metas, stream_info, stream_flags, info_flags,
                   beside_flag_handlers>>

InitFlags ==
    /\ metas = [node \in Nodes |->
                   [time_partition |-> None,
                    manifest_list |-> IF node = IngestNode THEN <<preexisting_item>> ELSE <<>>]]
    /\ stream_jsons = [node \in Nodes |-> to_bytes(metas[node])]
    /\ manifest_store = [path \in AllManifestPaths |->
                   IF path[2] = PreexistingDate
                   THEN Some([files |-> files_for(PreexistingDate, [lower |-> 25, upper |-> 30])])
                   ELSE None]
    /\ stream_info = {StreamName}
    /\ rd = IdleReader
    /\ ing = [t \in Tasks |-> IdleTask]
    /\ ret = IdleRetention(0)
    /\ AlertsAtRest
    /\ RbacAtRest
    /\ PutStreamAtRest
    /\ InitializeAtRest
    /\ RoutingAtRest
    /\ ShutdownAtRest
    /\ DeleteAtRest
    /\ CorrelationsAtRest
    /\ server_mode \in Modes
    /\ stats_req = IdleStats
    /\ stream_flags = NoFlags
    /\ info_flags = [cache_enabled |-> FALSE, hot_tier |-> FALSE]
    /\ flag_config \in [local_cache_path : BOOLEAN, hot_tier_storage_path : BOOLEAN]
    /\ flag_req = IdleFlagRequest

\* one ingest task commits beside the flag handler and the retention cleanup
CommittingTask == 1

NextFlags ==
    \/ \E stream_name \in StreamNames, enable \in BOOLEAN : PutEnableCache(stream_name, enable)
    \/ \E stream_name \in StreamNames, body_ok \in BOOLEAN : PutStreamHotTier(stream_name, body_ok)
    \/ PutHotTier
    \/ FlagGetFormat
    \/ FlagPutFormat
    \/ FlagReturn
    \/ WriteManifest(CommittingTask)
    \/ ReadSnapshot(CommittingTask)
    \/ WriteSnapshot(CommittingTask)
    \/ \E stream_name \in StreamNames : \E date \in Dates : RetentionCleanup(stream_name, <<date>>)
    \/ RetentionRead
    \/ RetentionWrite
    \/ RetentionDelete
    \/ RetentionReturn

SpecFlags == InitFlags /\ [][NextFlags]_vars

persisted_manifest_list == from_slice(stream_jsons[IngestNode]).val.manifest_list

\* C31: put_enable_cache and put_stream_hot_tier change only the
\* cache_enabled, respectively hot_tier_enabled, field of the persisted
\* stream metadata: no step of theirs changes the persisted manifest list,
\* so the list a concurrent snapshot update wrote is still there afterwards
C31_OnlyFlagChanged ==
    [][flag_req' /= flag_req => persisted_manifest_list' = persisted_manifest_list]_vars

----------------------------------------------------------------------------
(* The available nodes and the known nodes of QueryRouting *)

\* C32: after any sequence of QueryRouting operations every id in
\* available_nodes is a key of info, so the lookup of the chosen id in info
\* by get_query_node succeeds and does not panic
C32_AvailableNodesKnown ==
    /\ routing.available_nodes \subseteq routing.info
    /\ ~(routed.panicked /\ ~routed.read_failed)

----------------------------------------------------------------------------
(* QueryServer::initialize: the select loop over the HTTP server and the   *)
(* outboxes of the two sync tasks                                          *)

MaxRestarts == 3

\* select! branch of the app: both inboxes are sent to, the tasks are joined
on_app_finished(state) == [state EXCEPT !.pc = "join_local"]

\* select! branch of localsync_outbox: initialize returns the error
on_localsync_outbox(state) == [state EXCEPT !.pc = "returned", !.result = "Err"]

on_remote_sync_outbox_returning(state) == [state EXCEPT !.pc = "returned", !.result = "Err"]

\* select! branch of remote_sync_outbox: the old task is joined first
on_remote_sync_outbox(state) == [state EXCEPT !.pc = "join_remote"]

\* the HTTP server finishes
AppFinish ==
    /\ app = "running"
    /\ app' = "finished"
    /\ UNCHANGED <<local_sync, remote_sync, initialize, beside_init>>

\* the local sync task fails: it signals on its outbox and ends
LocalSyncFail ==
    /\ local_sync.task = "running"
    /\ local_sync' = [local_sync EXCEPT !.task = "ended", !.outbox = "signalled"]
    /\ UNCHANGED <<app, remote_sync, initialize, beside_init>>

\* the remote sync task fails: it signals on its outbox
RemoteSyncFail ==
    /\ remote_sync.task = "running"
    /\ remote_sync' = [remote_sync EXCEPT !.task = "ending", !.outbox = "signalled"]
    /\ UNCHANGED <<app, local_sync, initialize, beside_init>>

\* a sync task that signalled, or that was told to stop on its inbox, ends
RemoteSyncEnd ==
    /\ \/ remote_sync.task = "ending"
       \/ remote_sync.task = "running" /\ remote_sync.inbox = "signalled"
    /\ remote_sync' = [remote_sync EXCEPT !.task = "ended"]
    /\ UNCHANGED <<app, local_sync, initialize, beside_init>>

LocalSyncEnd ==
    /\ local_sync.task = "running" /\ local_sync.inbox = "signalled"
    /\ local_sync' = [local_sync EXCEPT !.task = "ended"]
    /\ UNCHANGED <<app, remote_sync, initialize, beside_init>>

SelectApp ==
    /\ initialize.pc = "select"
    /\ app = "finished"
    /\ remote_sync' = [remote_sync EXCEPT !.inbox = "signalled"]
    /\ local_sync' = [local_sync EXCEPT !.inbox = "signalled"]
    /\ initialize' = on_app_finished(initialize)
    /\ UNCHANGED <<app, beside_init>>

JoinLocal ==
    /\ initialize.pc = "join_local"
    /\ local_sync.task = "ended"
    /\ initialize' = [initialize EXCEPT !.pc = "join_remote_last"]
    /\ UNCHANGED <<app, local_sync, remote_sync, beside_init>>

\* the remote task is joined and the result of the app returned
JoinRemoteLast ==
    /\ initialize.pc = "join_remote_last"
    /\ remote_sync.task = "ended"
    /\ initialize' = [initialize EXCEPT !.pc = "returned", !.result = "app"]
    /\ UNCHANGED <<app, local_sync, remote_sync, beside_init>>

SelectLocal ==
    /\ initialize.pc = "select"
    /\ local_sync.outbox = "signalled"
    /\ initialize' = on_localsync_outbox(initialize)
    /\ UNCHANGED <<app, local_sync, remote_sync, beside_init>>

SelectRemote ==
    /\ initialize.pc = "select"
    /\ remote_sync.outbox = "signalled"
    /\ initialize' = on_remote_sync_outbox(initialize)
    /\ UNCHANGED <<app, local_sync, remote_sync, beside_init>>

\* remote_sync_handler.await in the remote branch
JoinRemote ==
    /\ initialize.pc = "join_remote"
    /\ remote_sync.task = "ended"
    /\ initialize' = [initialize EXCEPT !.pc = "restart"]
    /\ UNCHANGED <<app, local_sync, remote_sync, beside_init>>

\* sync::object_store_sync().await: a new task with new channels
RestartRemote ==
    /\ initialize.pc = "restart"
    /\ initialize.started < MaxRestarts
    /\ remote_sync' = FreshSync
    /\ initialize' = [initialize EXCEPT !.pc = "select", !.started = @ + 1]
    /\ UNCHANGED <<app, local_sync, beside_init>>

InitInitialize ==
    /\ CatalogAtRest
    /\ AlertsAtRest
    /\ RbacAtRest
    /\ HttpAtRest

NextInitialize ==
    \/ AppFinish
    \/ LocalSyncFail
    \/ RemoteSyncFail
    \/ RemoteSyncEnd
    \/ LocalSyncEnd
    \/ SelectApp
    \/ JoinLocal
    \/ JoinRemoteLast
    \/ SelectLocal
    \/ SelectRemote
    \/ JoinRemote
    \/ RestartRemote

SpecInitialize == InitInitialize /\ [][NextInitialize]_vars

\* C33: a failure signalled by the remote sync task never stops the server:
\* the old task is joined, a new remote sync task is started and the loop
\* waits again; initialize returns only with the result of the HTTP server
\* once that has finished, or with an error once the local sync task has
\* signalled failure
C33_RemoteFailureRecovered ==
    [][/\ (initialize.pc = "select" /\ initialize'.pc = "returned")
            => initialize'.result = "Err" /\ local_sync.outbox = "signalled"
       /\ (initialize.pc /= "returned" /\ initialize'.pc = "returned" /\ initialize.pc /= "select")
            => initialize'.result = "app" /\ app = "finished"
       /\ (initialize.pc = "join_remote" /\ initialize' /= initialize)
            => initialize'.pc = "restart" /\ remote_sync.task = "ended"
       /\ (initialize.pc = "restart" /\ initialize' /= initialize)
            => /\ initialize'.pc = "select"
               /\ initialize'.started = initialize.started + 1
               /\ remote_sync' = FreshSync
       /\ (initialize.pc = "select" /\ remote_sync.outbox = "signalled"
              /\ local_sync.outbox = "empty" /\ app = "running" /\ initialize' /= initialize)
            => initialize'.pc = "join_remote"]_vars

C33_Witness ==
    /\ initialize.pc = "select"
    /\ initialize.started = MaxRestarts
    /\ app = "running"
    /\ local_sync.task = "running"

----------------------------------------------------------------------------
(* put_stream: a stream is created, or its time partition limit or custom  *)
(* partition updated                                                       *)

\* header values: a custom partition is the list of its comma-separated keys
TimePartitions_h == {"", "ts"}
TimePartitionLimits == {"", "1d", "0d"}
CustomPartitions == {<<>>, <<"ts">>, <<"a", "b", "c", "d">>}
StaticSchemaFlags == {"", "true"}
UpdateStreamFlags == {"", "true"}
Bodies == {"empty", "schema"}
\* the fields of the schema of a stream with a static schema
SchemaFields == {"a", "ts"}

\* the value a validation hands back
valid(v) == [ok |-> TRUE, val |-> v]

PutRequests ==
    [stream_name : StreamNames, time_partition : TimePartitions_h,
     time_partition_limit : TimePartitionLimits, custom_partition : CustomPartitions,
     static_schema_flag : StaticSchemaFlags, update_stream : UpdateStreamFlags,
     body : Bodies]

\* validate_time_partition_limit: the days before the trailing 'd', non-zero
validate_time_partition_limit(time_partition_limit) ==
    IF time_partition_limit = "1d" THEN valid("1") ELSE Err("BadRequest")

\* validate_custom_partition: at most three keys
validate_custom_partition(custom_partition) ==
    IF Len(custom_partition) > 3 THEN Err("BadRequest") ELSE valid("")

\* validate_time_with_custom_partition
validate_time_with_custom_partition(time_partition, custom_partition) ==
    IF time_partition \in SeqToSet(custom_partition) THEN Err("BadRequest") ELSE valid("")

\* validate_static_schema
validate_static_schema(body, static_schema_flag) ==
    IF static_schema_flag = "true"
    THEN IF body = "schema" THEN valid("parsed") ELSE Err("BadRequest")
    ELSE valid("empty")

\* the checks of update_custom_partition_in_stream on a stream with a static schema
custom_partition_allowed(settings, custom_partition) ==
    settings.static_schema_flag /= "" =>
        \A partition \in SeqToSet(custom_partition) :
            partition \in SchemaFields /\ partition /= settings.time_partition

rejected(response) == [op |-> "reject", response |-> response]

create_update_stream_unguarded(registry, meta, r) ==
    IF r.update_stream /= "true"
    THEN IF ~validate_custom_partition(r.custom_partition).ok THEN rejected("BadRequest")
         ELSE [op |-> "create", response |-> "none"]
    ELSE [op |-> "update_custom", response |-> "none"]

\* create_update_stream up to its first storage call: a rejection, or what
\* it goes on to do
create_update_stream(registry, meta, r) ==
    IF stream_exists(registry, r.stream_name) /\ r.update_stream /= "true"
    THEN rejected("BadRequest")
    ELSE IF r.update_stream = "true"
    THEN IF ~stream_exists(registry, r.stream_name) THEN rejected("StreamNotFound")
         ELSE IF r.time_partition /= "" THEN rejected("BadRequest")
         ELSE IF r.static_schema_flag /= "" THEN rejected("BadRequest")
         ELSE IF r.time_partition_limit /= ""
         THEN IF validate_time_partition_limit(r.time_partition_limit).ok
              THEN [op |-> "update_limit", response |-> "none"]
              ELSE rejected("BadRequest")
         ELSE IF r.custom_partition /= <<>> /\ ~validate_custom_partition(r.custom_partition).ok
         THEN rejected("BadRequest")
         ELSE IF ~custom_partition_allowed(meta[r.stream_name].val, r.custom_partition)
         THEN rejected("BadRequest")
         ELSE [op |-> "update_custom", response |-> "none"]
    ELSE IF r.time_partition_limit /= "" /\ ~validate_time_partition_limit(r.time_partition_limit).ok
    THEN rejected("BadRequest")
    ELSE IF r.custom_partition /= <<>> /\ ~validate_custom_partition(r.custom_partition).ok
    THEN rejected("BadRequest")
    ELSE IF r.time_partition /= "" /\ r.custom_partition /= <<>>
              /\ ~validate_time_with_custom_partition(r.time_partition, r.custom_partition).ok
    THEN rejected("BadRequest")
    ELSE IF ~validate_static_schema(r.body, r.static_schema_flag).ok
    THEN rejected("BadRequest")
    ELSE [op |-> "create", response |-> "none"]

\* the settings the request leaves the stream with
settings_after(op, old, r) ==
    CASE op = "update_limit" ->
            [old.val EXCEPT !.time_partition_limit =
                validate_time_partition_limit(r.time_partition_limit).val]
      [] op = "update_custom" -> [old.val EXCEPT !.custom_partition = r.custom_partition]
      [] OTHER ->
            settings_of(r.time_partition,
                        IF r.time_partition_limit = "" THEN ""
                        ELSE validate_time_partition_limit(r.time_partition_limit).val,
                        r.custom_partition, r.static_schema_flag)

put_returned(req, response) ==
    [IdlePut EXCEPT !.pc = "returned", !.request = req.request, !.response = response]

beside_put_stream ==
    <<stream_jsons, manifest_store, metas, rd, ing, ret, alert_vars, rbac_vars,
      stats_vars, routing_vars, shutdown_vars, delete_vars, corr_vars, flag_vars, init_vars>>

PutStream(r) ==
    /\ put_req.pc = "idle"
    /\ LET todo == create_update_stream(stream_info, stream_meta, r)
           req == [IdlePut EXCEPT !.request = r, !.op = todo.op]
       IN  put_req' = IF todo.op = "reject" THEN put_returned(req, todo.response)
                      ELSE [req EXCEPT !.pc = "storage"]
    /\ UNCHANGED <<stream_info, stream_meta, stream_store, beside_put_stream>>

\* storage.create_stream / update_..._in_stream: the stream.json is written
PutStreamStorage ==
    /\ put_req.pc = "storage"
    /\ \E ok \in BOOLEAN :
          IF ok
          THEN /\ stream_store' = [stream_store EXCEPT ![put_req.request.stream_name] =
                       Some(settings_after(put_req.op, @, put_req.request))]
               /\ put_req' = [put_req EXCEPT !.pc = "memory"]
          ELSE /\ put_req' = put_returned(put_req, "StorageError")
               /\ UNCHANGED stream_store
    /\ UNCHANGED <<stream_info, stream_meta, beside_put_stream>>

\* STREAM_INFO.add_stream / update_time_partition_limit / update_custom_partition
PutStreamMemory ==
    /\ put_req.pc = "memory"
    /\ stream_meta' = [stream_meta EXCEPT ![put_req.request.stream_name] =
           Some(settings_after(put_req.op, @, put_req.request))]
    /\ stream_info' = stream_info \cup {put_req.request.stream_name}
    /\ put_req' = IF server_mode = "Query" THEN [put_req EXCEPT !.pc = "sync"]
                  ELSE put_returned(put_req, "OK")
    /\ UNCHANGED <<stream_store, beside_put_stream>>

\* Mode::Query: sync_streams_with_ingestors
PutStreamSync ==
    /\ put_req.pc = "sync"
    /\ \E ok \in BOOLEAN : put_req' = put_returned(put_req, IF ok THEN "OK" ELSE "Error")
    /\ UNCHANGED <<stream_info, stream_meta, stream_store, beside_put_stream>>

PutStreamReturn ==
    /\ put_req.pc = "returned"
    /\ put_req' = IdlePut
    /\ UNCHANGED <<stream_info, stream_meta, stream_store, beside_put_stream>>

InitPutStream ==
    /\ CatalogAtRest
    /\ AlertsAtRest
    /\ RbacAtRest
    /\ FlagsAtRest
    /\ InitializeAtRest
    /\ RoutingAtRest
    /\ ShutdownAtRest
    /\ DeleteAtRest
    /\ CorrelationsAtRest
    /\ server_mode \in {"All", "Query"}
    /\ stats_req = IdleStats
    /\ \E time_partition \in TimePartitions_h, static_schema_flag \in StaticSchemaFlags :
          stream_meta = StreamsAtStart(settings_of(time_partition, "", <<>>, static_schema_flag))
    /\ stream_store = stream_meta
    /\ put_req = IdlePut

NextPutStream ==
    \/ \E r \in PutRequests : PutStream(r)
    \/ PutStreamStorage
    \/ PutStreamMemory
    \/ PutStreamSync
    \/ PutStreamReturn

SpecPutStream == InitPutStream /\ [][NextPutStream]_vars

kept(before, after) ==
    before.some => /\ after.some
                   /\ after.val.time_partition = before.val.time_partition
                   /\ after.val.static_schema_flag = before.val.static_schema_flag

arrives == put_req.pc = "idle" /\ put_req'.pc /= "idle"

untouched == UNCHANGED <<stream_info, stream_meta, stream_store>>

\* C34: no sequence of put_stream requests changes the time partition or the
\* static-schema flag of a stream that exists; a request for an existing
\* stream without the update flag is rejected, an update request with a time
\* partition or a static-schema header is rejected, and an update request
\* for a stream that does not exist gets StreamNotFound, each without
\* changing any stream
C34_ExistingStreamKept ==
    [][/\ \A name \in StreamNames :
              /\ kept(stream_meta[name], stream_meta'[name])
              /\ kept(stream_store[name], stream_store'[name])
       /\ arrives =>
            LET r == put_req'.request
                exists == stream_exists(stream_info, r.stream_name)
            IN  /\ (exists /\ r.update_stream /= "true")
                      => put_req'.pc = "returned" /\ put_req'.response = "BadRequest" /\ untouched
                /\ (exists /\ r.update_stream = "true"
                       /\ (r.time_partition /= "" \/ r.static_schema_flag /= ""))
                      => put_req'.pc = "returned" /\ put_req'.response = "BadRequest" /\ untouched
                /\ (~exists /\ r.update_stream = "true")
                      => put_req'.pc = "returned" /\ put_req'.response = "StreamNotFound"
                         /\ untouched]_vars

C34_Witness ==
    /\ put_req.pc = "returned"
    /\ put_req.response = "BadRequest"
    /\ put_req.request.stream_name = "unknown"
    /\ put_req.request.update_stream = ""
    /\ stream_meta["unknown"].some
    /\ stream_store["unknown"].some
    /\ put_req.request.time_partition /= stream_meta["unknown"].val.time_partition

====
